---------------------------- MODULE Spec2Model ----------------------------
(***************************************************************************)
(* A model of the NavigationDemo native core: the road graph with its      *)
(* spatial index, the location filter, the routing engine (nearest-node    *)
(* search, A*, polyline construction), the route matcher and the           *)
(* navigation engine that wires them together.                             *)
(*                                                                         *)
(* Numbers.  The code computes in IEEE doubles and floats; the model       *)
(* computes in integers:                                                   *)
(*   - latitude / longitude: units of 1/111000 degree (one unit of         *)
(*     latitude is about one metre; the code itself uses 111000 m per      *)
(*     degree, road_graph.cpp:60, location_filter.cpp:130);                *)
(*   - distances: metres, rounded up;                                      *)
(*   - bearings and angles: whole degrees;                                 *)
(*   - speeds: tenths of a metre per second; accuracy: tenths of a metre;  *)
(*   - NaN is a distinguished value on which every comparison is false.    *)
(***************************************************************************)
EXTENDS Integers, Sequences, FiniteSets, TLC

(***************************************************************************)
(* Arithmetic helpers (std::abs, std::min, std::max, static_cast<int>).    *)
(***************************************************************************)
Abs(x) == IF x < 0 THEN -x ELSE x

Min(a, b) == IF a < b THEN a ELSE b

Max(a, b) == IF a > b THEN a ELSE b

\* static_cast<int>(a / b) for b > 0: the quotient truncated toward zero.
TruncDiv(a, b) == IF a >= 0 THEN a \div b ELSE -((-a) \div b)

\* a / b rounded up, for a >= 0 and b > 0.
CeilDiv(a, b) == (a + b - 1) \div b

\* a / b rounded to the nearest integer, for b > 0.
RoundDiv(a, b) == IF a >= 0 THEN (2 * a + b) \div (2 * b)
                  ELSE -((2 * (-a) + b) \div (2 * b))

\* The operators below are evaluated by TLC, which binds an operator's
\* arguments unevaluated.  Evaluated(v) is TRUE and has v computed where it
\* stands, so that the state a loop carries from one iteration to the next is
\* a value and not a growing chain of pending updates.
Evaluated(v) == v = v

\* v, computed where it stands: a function written [x \in S |-> e] is
\* otherwise recomputed at every application.
Strict(v) == IF Evaluated(v) THEN v ELSE v

\* With([x \in {e} |-> body]) is body for x = e: e is written and computed
\* once however often body uses x.
With(f) == f[CHOOSE x \in DOMAIN f : TRUE]

\* The arithmetic below is written as TLA+ functions, F[x \in Int] == ...,
\* applied as F[a]: TLC evaluates the body of a function with only its own
\* arguments bound, which keeps the innermost computations fast.

\* Newton's iteration for the integer square root of n from a guess x that
\* is not below it: the guesses fall until one is the greatest r with
\* r * r <= n.
SqrtFrom[n \in Int, x \in Int] ==
    LET y == (x + n \div x) \div 2
    IN  IF y >= x THEN x ELSE SqrtFrom[n, y]

\* The greatest r with r * r <= n, for n below 2^31.
FloorSqrt[n \in Int] ==
    IF n < 1 THEN 0
    ELSE SqrtFrom[n, IF n < 256 THEN 16
                     ELSE IF n < 65536 THEN 256
                     ELSE IF n < 16777216 THEN 4096 ELSE 46341]

\* std::sqrt, rounded up.
CeilSqrt[n \in Int] == IF n <= 0 THEN 0 ELSE FloorSqrt[n - 1] + 1

\* The NaN of a float field (a raw bearing or speed that is absent).
NaN == 0 - 999999

IsNaN(x) == x = NaN

(***************************************************************************)
(* Geometry.  cos(latitude) is the constant 4/5 over the modelled area     *)
(* (latitude about 37 degrees, the area of the engine's demo map), so a    *)
(* unit of longitude is 4/5 of a metre.                                    *)
(***************************************************************************)
CosLat == <<4, 5>>

\* The metres spanned by dLon units of longitude (rounded up).
LonMetres(dLon) == CeilDiv(Abs(dLon) * CosLat[1], CosLat[2])

\* sqrt(a^2 + b^2), rounded up.
Norm[a \in Int, b \in Int] == CeilSqrt[a * a + b * b]

\* RoadGraph::haversineDistance: great-circle distance in metres.  Over the
\* modelled area it is sqrt(dLat^2 + (cos(lat) dLon)^2); every rounding is
\* upward, which keeps the triangle inequality of the exact distance.
HaversineDistance(lat1, lon1, lat2, lon2) ==
    Norm[Abs(lat2 - lat1), LonMetres(lon2 - lon1)]

\* 1000 * tan(k degrees) for k = 0 .. 45, rounded to the nearest integer.
TanMilli ==
    <<0, 17, 35, 52, 70, 87, 105, 123, 141, 158, 176, 194, 213, 231, 249,
      268, 287, 306, 325, 344, 364, 384, 404, 424, 445, 466, 488, 510, 532,
      554, 577, 601, 625, 649, 675, 700, 727, 754, 781, 810, 839, 869, 900,
      933, 966, 1000>>

\* The greatest k in lo .. hi with tan(k degrees) <= small / large, by
\* bisection (lo is such a k).
AtanBetween[small \in Int, large \in Int, lo \in Int, hi \in Int] ==
    IF lo = hi THEN lo
    ELSE LET mid == (lo + hi + 1) \div 2
         IN  IF TanMilli[mid + 1] * large <= 1000 * small
             THEN AtanBetween[small, large, mid, hi]
             ELSE AtanBetween[small, large, lo, mid - 1]

\* atan(small / large) in whole degrees, rounded down, for
\* 0 <= small <= large and large > 0.
AtanOctant[small \in Int, large \in Int] == AtanBetween[small, large, 0, 45]

\* The angle of (x, y) given o, the angle in 0 .. 45 between it and the
\* nearer axis direction.
AtanQuadrant(y, x, o) ==
    IF Abs(y) <= Abs(x)
    THEN IF y >= 0 THEN (IF x >= 0 THEN o ELSE 180 - o)
         ELSE (IF x >= 0 THEN -o ELSE -(180 - o))
    ELSE IF y >= 0 THEN (IF x >= 0 THEN 90 - o ELSE 180 - (90 - o))
         ELSE (IF x >= 0 THEN -(90 - o) ELSE -(180 - (90 - o)))

\* std::atan2(y, x) * 180 / M_PI, in whole degrees in (-180, 180].
Atan2Deg[y \in Int, x \in Int] ==
    IF x = 0 /\ y = 0 THEN 0
    ELSE AtanQuadrant(y, x, AtanOctant[Min(Abs(y), Abs(x)), Max(Abs(y), Abs(x))])

\* RoutingEngine::calculateBearing / RouteMatcher::calculateBearing: the
\* initial bearing from point 1 to point 2, in [0, 360).
CalculateBearing(lat1, lon1, lat2, lon2) ==
    LET y == (lon2 - lon1) * CosLat[1]
        x == (lat2 - lat1) * CosLat[2]
    IN  (Atan2Deg[y, x] + 360) % 360

\* The absolute difference of two bearings folded into [0, 180].
BearingDiff(b1, b2) ==
    LET d == Abs(b1 - b2)
    IN  IF d > 180 THEN 360 - d ELSE d

\* A std::string built from one literal, or by concatenating two: strings
\* are kept as the sequence of their parts.
Str(a) == <<a>>

Str2(a, b) == <<a, b>>

\* The Location struct.
Location(lat, lon, b, s, a) ==
    [latitude |-> lat, longitude |-> lon, bearing |-> b, speed |-> s,
     accuracy |-> a]

(***************************************************************************)
(* The road graph (road_graph.h).  Node and RoadSegment objects live on    *)
(* the heap and are referred to by pointer; the model keeps every object   *)
(* ever allocated in nodeObjs / segObjs (an object's address is its index) *)
(* with a live flag that its destruction clears.                           *)
(*   nodes     : std::unordered_map<std::string, std::unique_ptr<Node>>    *)
(*   segments  : std::vector<std::unique_ptr<RoadSegment>>                 *)
(*   cells, allSegments : the SpatialIndex                                 *)
(***************************************************************************)
\* SpatialIndex::cellSize: 0.001 degree, in coordinate units.
CellSize == 111

\* RoadGraph::RoadGraph: an empty graph with a fresh spatial index.
EmptyGraph ==
    [nodeObjs |-> <<>>, nodes |-> <<>>, segObjs |-> <<>>, segments |-> <<>>,
     cells |-> <<>>, allSegments |-> <<>>, nextSegmentId |-> 1]

\* The elements of a sequence, as a set.
Range(s) == {s[i] : i \in DOMAIN s}

\* The cell key "latCell,lonCell" of SpatialIndex.
CellKey(latCell, lonCell) == <<latCell, lonCell>>

\* static_cast<int>(coordinate / cellSize).
CellOf(coord) == TruncDiv(coord, CellSize)

\* cells[cellKey].push_back(segment) for every key of keys.
CellPushAll(cells, keys, seg) ==
    Strict([key \in DOMAIN cells \cup Range(keys) |->
               IF key \in Range(keys)
               THEN IF key \in DOMAIN cells THEN Append(cells[key], seg)
                    ELSE <<seg>>
               ELSE cells[key]])

\* The cell keys of the double loop of SpatialIndex::addSegment, in loop order.
CellRange(minLatCell, maxLatCell, minLonCell, maxLonCell) ==
    LET w == maxLonCell - minLonCell + 1
        n == (maxLatCell - minLatCell + 1) * w
    IN  Strict([k \in 1 .. n |->
                   CellKey(minLatCell + ((k - 1) \div w),
                           minLonCell + ((k - 1) % w))])

\* SpatialIndex::addSegment: the segment goes into every cell its bounding
\* box overlaps, and into allSegments.
IndexAddSegment(g, seg, startLat, startLon, endLat, endLon) ==
    LET minLatCell == CellOf(Min(startLat, endLat))
        maxLatCell == CellOf(Max(startLat, endLat))
        minLonCell == CellOf(Min(startLon, endLon))
        maxLonCell == CellOf(Max(startLon, endLon))
    IN  [g EXCEPT
            !.cells = CellPushAll(@, CellRange(minLatCell, maxLatCell,
                                               minLonCell, maxLonCell), seg),
            !.allSegments = Append(@, seg)]

\* The elements of a finite set of integers as a sequence, ascending.
SortedSeq(S) ==
    Strict([i \in 1 .. Cardinality(S) |->
               CHOOSE x \in S : Cardinality({y \in S : y < x}) = i - 1])

Reverse(s) == Strict([i \in 1 .. Len(s) |-> s[Len(s) + 1 - i]])

\* The order in which a std::unordered_set<RoadSegment*> is traversed is
\* unspecified; the model draws it from IterationOrders (by ascending or by
\* descending address).
IterationOrders == {"asc", "desc"}

Traversal(S, ord) == IF ord = "asc" THEN SortedSeq(S) ELSE Reverse(SortedSeq(S))

\* SpatialIndex::findNearby: the segments of the cells within cellRadius of
\* the query's cell, collected in an unordered_set and returned in its
\* traversal order, or allSegments itself when none is found and the radius
\* exceeds 1000 m.
FindNearby(g, lat, lon, radiusMeters, ord) ==
    LET latCell == CellOf(lat)
        lonCell == CellOf(lon)
        cellRadius == Max(1, TruncDiv(radiusMeters, CellSize) + 1)
        window == (latCell - cellRadius .. latCell + cellRadius)
                  \X (lonCell - cellRadius .. lonCell + cellRadius)
        found == IF cellRadius <= 2
                 THEN {key \in window : key \in DOMAIN g.cells}
                 ELSE {key \in DOMAIN g.cells : key \in window}
        segmentSet == UNION {Range(g.cells[key]) : key \in found}
    IN  IF segmentSet = {} /\ radiusMeters > 1000
        THEN g.allSegments
        ELSE Traversal(segmentSet, ord)

\* RoadGraph::findNearbyRoads
FindNearbyRoads(g, loc, radius, ord) ==
    FindNearby(g, loc.latitude, loc.longitude, radius, ord)

\* RoadGraph::clear: every node and segment is destroyed, the index replaced.
Clear(g) ==
    Strict(
    [g EXCEPT
        !.nodeObjs = [a \in DOMAIN g.nodeObjs |->
                         [g.nodeObjs[a] EXCEPT !.live = FALSE]],
        !.segObjs = [a \in DOMAIN g.segObjs |->
                        [g.segObjs[a] EXCEPT !.live = FALSE]],
        !.nodes = <<>>, !.segments = <<>>, !.cells = <<>>,
        !.allSegments = <<>>, !.nextSegmentId = 1])

\* RoadGraph::addNode: a new Node is allocated and stored under id; a node
\* already stored under id is destroyed by the assignment.  The result is
\* the graph and the new node's address.
AddNode(g, id, lat, lon) ==
    LET nodePtr == Len(g.nodeObjs) + 1
        node == [id |-> id, latitude |-> lat, longitude |-> lon,
                 segments |-> <<>>, live |-> TRUE]
        objs == IF id \in DOMAIN g.nodes
                THEN [g.nodeObjs EXCEPT ![g.nodes[id]].live = FALSE]
                ELSE g.nodeObjs
        nodes == IF id \in DOMAIN g.nodes
                 THEN [g.nodes EXCEPT ![id] = nodePtr]
                 ELSE g.nodes @@ (id :> nodePtr)
    IN  [graph |-> Strict([g EXCEPT !.nodeObjs = Append(objs, node),
                                    !.nodes = nodes]),
         node |-> nodePtr]

\* RoadGraph::addSegment: a directed segment start -> end with the next id,
\* linked into start->segments and registered in the spatial index.
AddSegment(g, start, end, name, speedLimit, type) ==
    LET s == g.nodeObjs[start]
        e == g.nodeObjs[end]
        segmentPtr == Len(g.segObjs) + 1
        segment == [start |-> start, end |-> end, name |-> name,
                    speedLimit |-> speedLimit, type |-> type,
                    length |-> HaversineDistance(s.latitude, s.longitude,
                                                 e.latitude, e.longitude),
                    id |-> g.nextSegmentId, isOneway |-> FALSE, live |-> TRUE]
        g1 == [g EXCEPT
                  !.segObjs = Append(@, segment),
                  !.nextSegmentId = @ + 1,
                  !.nodeObjs[start].segments = Append(@, segmentPtr)]
        g2 == IndexAddSegment(g1, segmentPtr, s.latitude, s.longitude,
                              e.latitude, e.longitude)
    IN  [graph |-> Strict([g2 EXCEPT !.segments = Append(@, segmentPtr)]),
         segment |-> segmentPtr]

(***************************************************************************)
(* The OSM parser (osm_parser.cpp).  A document is a record                *)
(* [nodes: sequence of [id, lat, lon], ways: sequence of [id, nodeRefs,    *)
(* tags]]; a way's tags are a function from tag keys to values (maxspeed   *)
(* is already a number, as std::stod would read it).                       *)
(***************************************************************************)
HasTag(tags, k) == k \in DOMAIN tags

\* OSMParser::getRoadTypeFromTags
GetRoadTypeFromTags(tags) ==
    IF ~HasTag(tags, "highway") THEN "RESIDENTIAL"
    ELSE LET highway == tags["highway"]
         IN  IF highway \in {"motorway", "trunk", "motorway_link", "trunk_link"}
             THEN "HIGHWAY"
             ELSE IF highway \in {"primary", "secondary", "primary_link",
                                  "secondary_link"}
             THEN "PRIMARY"
             ELSE IF highway \in {"tertiary", "unclassified", "tertiary_link"}
             THEN "SECONDARY"
             ELSE IF highway \in {"residential", "living_street"}
             THEN "RESIDENTIAL"
             ELSE IF highway \in {"service", "track"}
             THEN "SERVICE"
             ELSE "RESIDENTIAL"

\* OSMParser::getSpeedLimitFromTags
GetSpeedLimitFromTags(tags, type) ==
    IF HasTag(tags, "maxspeed") THEN tags["maxspeed"]
    ELSE CASE type = "HIGHWAY" -> 100
           [] type = "PRIMARY" -> 70
           [] type = "SECONDARY" -> 50
           [] type = "RESIDENTIAL" -> 30
           [] type = "SERVICE" -> 20
           [] OTHER -> 30

\* segment->isOneway = isOneway
SetOneway(g, seg, isOneway) ==
    [g EXCEPT !.segObjs[seg].isOneway = isOneway]

\* The loop of OSMParser::processWay over consecutive node refs, from pair i.
RECURSIVE ProcessWayPairs(_, _, _, _, _, _, _, _)
ProcessWayPairs(g, osmNodeMap, nodeRefs, i, name, speedLimit, roadType, isOneway) ==
    IF i >= Len(nodeRefs) \/ ~Evaluated(g) THEN g
    ELSE LET fromId == nodeRefs[i]
             toId == nodeRefs[i + 1]
         IN  IF fromId \notin DOMAIN osmNodeMap \/ toId \notin DOMAIN osmNodeMap
             THEN ProcessWayPairs(g, osmNodeMap, nodeRefs, i + 1, name,
                                  speedLimit, roadType, isOneway)
             ELSE LET fromNode == osmNodeMap[fromId]
                      toNode == osmNodeMap[toId]
                      marked(added) ==
                          SetOneway(added.graph, added.segment, isOneway)
                      reversed(g1) ==
                          IF ~isOneway
                          THEN marked(AddSegment(g1, toNode, fromNode, name,
                                                 speedLimit, roadType))
                          ELSE g1
                  IN  ProcessWayPairs(
                          reversed(marked(AddSegment(g, fromNode, toNode, name,
                                                     speedLimit, roadType))),
                          osmNodeMap, nodeRefs, i + 1, name, speedLimit,
                          roadType, isOneway)

\* isOneway of processWay if it looked at the oneway tag only.
IsOnewayByTagOnly(tags) ==
    HasTag(tags, "oneway") /\ tags["oneway"] \in {"yes", "true", "1"}

\* isOneway of processWay: the oneway tag is yes, true or 1, or the way is
\* a motorway or a motorway link.
IsOneway(tags) ==
    \/ HasTag(tags, "oneway") /\ tags["oneway"] \in {"yes", "true", "1"}
    \/ tags["highway"] \in {"motorway", "motorway_link"}

\* OSMParser::processWay
ProcessWay(g, osmNodeMap, nodeRefs, tags) ==
    IF Len(nodeRefs) < 2 THEN g
    ELSE IF ~HasTag(tags, "highway") THEN g
    ELSE IF tags["highway"] \in {"footway", "cycleway", "path", "steps",
                                 "pedestrian", "track", "bus_guideway",
                                 "escape", "raceway", "bridleway"}
    THEN g
    ELSE IF HasTag(tags, "access") /\ tags["access"] \in {"private", "no"}
    THEN g
    ELSE LET roadType == GetRoadTypeFromTags(tags)
             speedLimit == GetSpeedLimitFromTags(tags, roadType)
             name == IF HasTag(tags, "name") THEN Str(tags["name"])
                     ELSE IF HasTag(tags, "ref") THEN Str2("Road ", tags["ref"])
                     ELSE Str("Unnamed Road")
             isOneway == IsOneway(tags)
         IN  ProcessWayPairs(g, osmNodeMap, nodeRefs, 1, name, speedLimit,
                             roadType, isOneway)

\* The node loop of OSMParser::parseOSMFile: addNode, osmNodeMap[id] = node.
RECURSIVE ParseNodes(_, _, _)
ParseNodes(st, nodeEvents, i) ==
    IF i > Len(nodeEvents) \/ ~Evaluated(st) THEN st
    ELSE LET n == nodeEvents[i]
             r == AddNode(st.graph, <<"osm", n.id>>, n.lat, n.lon)
             m == IF n.id \in DOMAIN st.osmNodeMap
                  THEN [st.osmNodeMap EXCEPT ![n.id] = r.node]
                  ELSE st.osmNodeMap @@ (n.id :> r.node)
         IN  ParseNodes([graph |-> r.graph, osmNodeMap |-> m], nodeEvents, i + 1)

\* The way loop of OSMParser::parseOSMFile: ways without a highway tag are
\* skipped, the others handed to processWay.
RECURSIVE ParseWays(_, _, _, _)
ParseWays(g, osmNodeMap, wayEvents, i) ==
    IF i > Len(wayEvents) \/ ~Evaluated(g) THEN g
    ELSE LET w == wayEvents[i]
             g1 == IF HasTag(w.tags, "highway")
                   THEN ProcessWay(g, osmNodeMap, w.nodeRefs, w.tags)
                   ELSE g
         IN  ParseWays(g1, osmNodeMap, wayEvents, i + 1)

\* The number of ways parseOSMFile counts as roads.
RoadCount(wayEvents) ==
    Cardinality({i \in DOMAIN wayEvents : HasTag(wayEvents[i].tags, "highway")})

\* OSMParser::parseOSMFile on a decoded document.
ParseOSMFile(g, osmNodeMap, doc) ==
    LET st == ParseNodes([graph |-> g, osmNodeMap |-> osmNodeMap], doc.nodes, 1)
    IN  [graph |-> ParseWays(st.graph, st.osmNodeMap, doc.ways, 1),
         osmNodeMap |-> st.osmNodeMap,
         success |-> Len(doc.nodes) > 0 /\ RoadCount(doc.ways) > 0]

\* What a read of a destroyed Node finds is undefined: the allocator may
\* have left the object as it was ("kept") or handed its memory out again
\* ("zeroed" stands for any other content).
FreedMemory == {"kept", "zeroed"}

\* The graph with the memory of its destroyed nodes as freed says.
Freed(g, freed) ==
    IF freed = "kept" \/ ~Evaluated(g) THEN g
    ELSE Strict([g EXCEPT
             !.nodeObjs = [a \in DOMAIN g.nodeObjs |->
                              IF g.nodeObjs[a].live THEN g.nodeObjs[a]
                              ELSE [g.nodeObjs[a] EXCEPT !.latitude = 0,
                                                         !.longitude = 0]]])

\* RoadGraph::loadOSMData: clear, then parse.  The parser's osmNodeMap
\* outlives the clear, so the parse may read nodes the clear destroyed.
LoadOSMData(g, osmNodeMap, doc, freed) ==
    ParseOSMFile(Freed(Clear(g), freed), osmNodeMap, doc)

(***************************************************************************)
(* The location filter (location_filter.cpp).  Positions are coordinate    *)
(* units, velocities units per second, variances and the gain thousandths, *)
(* timestamps milliseconds.                                                *)
(***************************************************************************)
\* INITIAL_POSITION_VARIANCE = 10.0, in thousandths.
InitialPositionVariance == 10000

\* INITIAL_VELOCITY_VARIANCE = 5.0, in thousandths.
InitialVelocityVariance == 5000

\* PROCESS_NOISE_POSITION = 0.01, in thousandths.
ProcessNoisePosition == 10

\* PROCESS_NOISE_VELOCITY = 0.1, in thousandths.
ProcessNoiseVelocity == 100

\* BASE_MEASUREMENT_NOISE = 5.0, in thousandths.
BaseMeasurementNoise == 5000

\* MAX_VELOCITY_CHANGE = 10.0 (degrees per second), in units per second.
MaxVelocityChange == 1110000

\* LocationFilter::LocationFilter
NewLocationFilter ==
    [initialized |-> FALSE, lat |-> 0, lon |-> 0, lat_vel |-> 0, lon_vel |-> 0,
     positionVariance |-> InitialPositionVariance,
     velocityVariance |-> InitialVelocityVariance,
     lastTimestamp |-> 0]

\* std::copysign(m, x)
CopySign(m, x) == IF x < 0 THEN -m ELSE m

\* std::sqrt(a * a + b * b), rounded up (coarser for large magnitudes).
Hypot(a, b) ==
    IF Max(Abs(a), Abs(b)) <= 30000 THEN CeilSqrt[a * a + b * b]
    ELSE 16 * CeilSqrt[(Abs(a) \div 16) * (Abs(a) \div 16)
                       + (Abs(b) \div 16) * (Abs(b) \div 16)]

\* The signs std::copysign may take from a NaN: which one a NaN carries is
\* not specified.
NaNSigns == {-1, 1}

\* filtered.accuracy = raw.accuracy * 0.8f
FilteredAccuracy(accuracy) == RoundDiv(accuracy * 8, 10)

\* LocationFilter::process at wall-clock time currentTimestamp: the new
\* filter state and the filtered location returned.  A NaN coordinate makes
\* NaN of whatever is computed from it and fails every comparison; nanSign
\* is the sign copysign finds in a NaN.
Process(f, raw, currentTimestamp, nanSign) ==
    IF ~f.initialized
    THEN [filter |-> [f EXCEPT !.lat = raw.latitude, !.lon = raw.longitude,
                               !.lat_vel = 0, !.lon_vel = 0,
                               !.initialized = TRUE,
                               !.lastTimestamp = currentTimestamp],
          out |-> raw]
    ELSE
    LET dtRaw == currentTimestamp - f.lastTimestamp
        dtMs == IF dtRaw <= 0 \/ dtRaw > 10000 THEN 100 ELSE dtRaw
        adaptedNoise == IF raw.accuracy > 0 THEN 50 * raw.accuracy
                        ELSE BaseMeasurementNoise
        nanLat == IsNaN(raw.latitude) \/ IsNaN(f.lat) \/ IsNaN(f.lat_vel)
        nanLon == IsNaN(raw.longitude) \/ IsNaN(f.lon) \/ IsNaN(f.lon_vel)
        predictedLat == f.lat + RoundDiv(f.lat_vel * dtMs, 1000)
        predictedLon == f.lon + RoundDiv(f.lon_vel * dtMs, 1000)
        predictedPosVar ==
            f.positionVariance + ProcessNoisePosition
            + RoundDiv(RoundDiv(f.velocityVariance * dtMs, 1000) * dtMs, 1000)
        predictedVelVar == f.velocityVariance + ProcessNoiseVelocity
        kRaw == RoundDiv(1000 * predictedPosVar, predictedPosVar + adaptedNoise)
        kLat == Max(100, Min(kRaw, 900))
        lat == IF nanLat THEN NaN
               ELSE predictedLat
                    + RoundDiv(kLat * (raw.latitude - predictedLat), 1000)
        lon == IF nanLon THEN NaN
               ELSE predictedLon
                    + RoundDiv(kLat * (raw.longitude - predictedLon), 1000)
        nlv0 == IF nanLat THEN NaN
                ELSE RoundDiv((raw.latitude - predictedLat) * 1000, dtMs)
        nlo0 == IF nanLon THEN NaN
                ELSE RoundDiv((raw.longitude - predictedLon) * 1000, dtMs)
        jump == \/ ~nanLat /\ Abs(nlv0 - f.lat_vel) > MaxVelocityChange
                \/ ~nanLon /\ Abs(nlo0 - f.lon_vel) > MaxVelocityChange
        limited(vel, new) ==
            IF IsNaN(vel) THEN NaN
            ELSE IF IsNaN(new) THEN vel + nanSign * MaxVelocityChange
            ELSE vel + CopySign(MaxVelocityChange, new - vel)
        new_lat_vel == IF jump THEN limited(f.lat_vel, nlv0) ELSE nlv0
        new_lon_vel == IF jump THEN limited(f.lon_vel, nlo0) ELSE nlo0
        smoothed(vel, new) ==
            IF IsNaN(vel) \/ IsNaN(new) THEN NaN
            ELSE RoundDiv(7 * vel + 3 * new, 10)
        lat_vel == smoothed(f.lat_vel, new_lat_vel)
        lon_vel == smoothed(f.lon_vel, new_lon_vel)
        velocityMagnitude == IF IsNaN(lat_vel) \/ IsNaN(lon_vel) THEN NaN
                             ELSE Hypot(lat_vel, lon_vel)
        moving == ~IsNaN(velocityMagnitude) /\ velocityMagnitude > 1
        calculatedBearing ==
            IF moving THEN (Atan2Deg[lon_vel, lat_vel] + 360) % 360
            ELSE raw.bearing
        calculatedSpeed == IF moving THEN 10 * velocityMagnitude ELSE raw.speed
    IN  [filter |->
            [f EXCEPT !.lat = lat, !.lon = lon,
                      !.lat_vel = lat_vel, !.lon_vel = lon_vel,
                      !.positionVariance =
                          RoundDiv((1000 - kLat) * predictedPosVar, 1000),
                      !.velocityVariance =
                          RoundDiv((1000 - kLat) * predictedVelVar, 1000),
                      !.lastTimestamp = currentTimestamp],
         out |-> [latitude |-> lat, longitude |-> lon,
                  bearing |-> IF IsNaN(raw.bearing) THEN calculatedBearing
                              ELSE raw.bearing,
                  speed |-> IF IsNaN(raw.speed) THEN calculatedSpeed
                            ELSE raw.speed,
                  accuracy |-> FilteredAccuracy(raw.accuracy)]]

(***************************************************************************)
(* The routing engine (routing_engine.cpp).  A Node* or RoadSegment* is    *)
(* the object's address; nullptr is 0.                                     *)
(***************************************************************************)
\* std::numeric_limits<double>::max(): greater than every distance and score.
DBL_MAX == 2147483647

\* MAX_ROUTE_DISTANCE = 10000.0 metres
MAX_ROUTE_DISTANCE == 10000

\* NODE_SEARCH_RADIUS = 10000.0 metres
NODE_SEARCH_RADIUS == 10000

\* The default searchRadius = 5000.0 of findNearestNode (routing_engine.h).
DefaultSearchRadius == 5000

\* MAX_ROUTE_POINTS = 1000
MAX_ROUTE_POINTS == 1000

\* ROUTE_POINT_SPACING = 25.0 metres
ROUTE_POINT_SPACING == 25

\* MIN_NODE_SPACING = 10.0 metres
MIN_NODE_SPACING == 10

Nullptr == 0

\* The point of the line (x1,y1)-(x2,y2) nearest to (x0,y0), with the
\* parameter t clamped to [0,1]: the shared arithmetic of
\* RoutingEngine::projectLocationOntoSegment and RouteMatcher::projectOntoSegment.
\* A segment shorter than 1e-10 squared degrees projects onto its start.
\* On a long segment t is kept to four decimal places.
ProjectPoint(x0, y0, x1, y1, x2, y2) ==
    LET dx == x2 - x1
        dy == y2 - y1
        segmentLengthSquared == dx * dx + dy * dy
        num == (x0 - x1) * dx + (y0 - y1) * dy
        t == RoundDiv(num, segmentLengthSquared \div 10000)
    IN  IF segmentLengthSquared <= 1 THEN [x |-> x1, y |-> y1]
        ELSE IF num <= 0 THEN [x |-> x1, y |-> y1]
        ELSE IF num >= segmentLengthSquared THEN [x |-> x2, y |-> y2]
        ELSE IF segmentLengthSquared <= 500000
        THEN [x |-> x1 + RoundDiv(num * dx, segmentLengthSquared),
              y |-> y1 + RoundDiv(num * dy, segmentLengthSquared)]
        ELSE [x |-> x1 + RoundDiv(t * dx, 10000),
              y |-> y1 + RoundDiv(t * dy, 10000)]

\* RoutingEngine::projectLocationOntoSegment
ProjectLocationOntoSegment(g, loc, segment) ==
    LET s == g.nodeObjs[g.segObjs[segment].start]
        e == g.nodeObjs[g.segObjs[segment].end]
        p == ProjectPoint(loc.longitude, loc.latitude, s.longitude, s.latitude,
                          e.longitude, e.latitude)
    IN  Location(p.y, p.x,
                 CalculateBearing(s.latitude, s.longitude, e.latitude, e.longitude),
                 0, 0)

\* The first loop of findNearestNode from position i: the nearest endpoint
\* of the nearby segments, kept in st = [minDistance, nearest].
RECURSIVE NearestEndpoint(_, _, _, _, _)
NearestEndpoint(g, location, nearbyRoads, i, st) ==
    IF i > Len(nearbyRoads) \/ ~Evaluated(st) THEN st
    ELSE LET segment == g.segObjs[nearbyRoads[i]]
             s == g.nodeObjs[segment.start]
             e == g.nodeObjs[segment.end]
             distToStart == HaversineDistance(location.latitude, location.longitude,
                                              s.latitude, s.longitude)
             st1 == IF distToStart < st.minDistance
                    THEN [minDistance |-> distToStart, nearest |-> segment.start]
                    ELSE st
             distToEnd == HaversineDistance(location.latitude, location.longitude,
                                            e.latitude, e.longitude)
             st2 == IF distToEnd < st1.minDistance
                    THEN [minDistance |-> distToEnd, nearest |-> segment.end]
                    ELSE st1
         IN  NearestEndpoint(g, location, nearbyRoads, i + 1, st2)

\* The node id "projected_<segment id>_<microdegrees>_<microdegrees>".
ProjectedNodeId(segmentId, lat, lon) ==
    <<"projected", segmentId, TruncDiv(lat * 1000, 111), TruncDiv(lon * 1000, 111)>>

\* One pass of the second loop of findNearestNode: a projection onto the
\* segment road that is strictly nearer than the best so far and more than
\* MIN_NODE_SPACING from both ends becomes a new node that splits the
\* segment.  st = [graph, minDistance, nearest].
ProjectOntoRoad(location, road, st) ==
    LET segment == st.graph.segObjs[road]
        s == st.graph.nodeObjs[segment.start]
        e == st.graph.nodeObjs[segment.end]
        loc == Location(location.latitude, location.longitude, 0, 0, 0)
        split(projected) ==
            With([n \in {AddNode(st.graph,
                                 ProjectedNodeId(segment.id, projected.latitude,
                                                 projected.longitude),
                                 projected.latitude, projected.longitude)} |->
                With([a1 \in {AddSegment(n.graph, segment.start, n.node,
                                         segment.name, segment.speedLimit,
                                         segment.type)} |->
                    [graph |-> AddSegment(a1.graph, n.node, segment.end,
                                          segment.name, segment.speedLimit,
                                          segment.type).graph,
                     nearest |-> n.node]])])
    IN  With([projected \in {ProjectLocationOntoSegment(st.graph, loc, road)} |->
            With([distance \in {HaversineDistance(location.latitude,
                                                  location.longitude,
                                                  projected.latitude,
                                                  projected.longitude)} |->
                IF /\ distance < st.minDistance
                   /\ HaversineDistance(projected.latitude, projected.longitude,
                                        s.latitude, s.longitude)
                      > MIN_NODE_SPACING
                   /\ HaversineDistance(projected.latitude, projected.longitude,
                                        e.latitude, e.longitude)
                      > MIN_NODE_SPACING
                THEN With([sp \in {split(projected)} |->
                         [graph |-> sp.graph, minDistance |-> distance,
                          nearest |-> sp.nearest]])
                ELSE st])])

\* The second loop of findNearestNode from position i.
RECURSIVE ProjectOntoRoads(_, _, _, _)
ProjectOntoRoads(location, nearbyRoads, i, st) ==
    IF i > Len(nearbyRoads) \/ ~Evaluated(st) THEN st
    ELSE ProjectOntoRoads(location, nearbyRoads, i + 1,
                          ProjectOntoRoad(location, nearbyRoads[i], st))

\* RoutingEngine::findNearestNode: the graph after the search and the node
\* found (Nullptr when no road is near).
FindNearestNode(g, location, searchRadius, ord) ==
    With([nearbyRoads \in {FindNearbyRoads(g, location, searchRadius, ord)} |->
        IF nearbyRoads = <<>> THEN [graph |-> g, node |-> Nullptr]
        ELSE With([first \in {NearestEndpoint(g, location, nearbyRoads, 1,
                                              [minDistance |-> DBL_MAX,
                                               nearest |-> Nullptr])} |->
                 With([second \in {ProjectOntoRoads(
                                       location, nearbyRoads, 1,
                                       [graph |-> g,
                                        minDistance |-> first.minDistance,
                                        nearest |-> first.nearest])} |->
                     [graph |-> second.graph, node |-> second.nearest]])])])

\* RoutingEngine::estimateHeuristic, in thousandths of a metre.
EstimateHeuristic(g, current, goal) ==
    1000 * HaversineDistance(g.nodeObjs[current].latitude, g.nodeObjs[current].longitude,
                             g.nodeObjs[goal].latitude, g.nodeObjs[goal].longitude)

\* The edge costs, in thousandths of a metre: segment->length (findPath),
\* speedCostFunction (generateFastRoute), noHighwaysCostFunction
\* (generateNoHighwaysRoute).
\* The edge cost of findPath if every segment counted the same.
UnitCost(segment) == 1000

LengthCost(segment) == 1000 * segment.length

SpeedCostFunction(segment) == RoundDiv(segment.length * 50 * 1000, segment.speedLimit)

NoHighwaysCostFunction(segment) ==
    IF segment.type = "HIGHWAY" THEN 1000 * segment.length * 10
    ELSE 1000 * segment.length

CostOf(segment, costFunction) ==
    CASE costFunction = "length" -> LengthCost(segment)
      [] costFunction = "speed" -> SpeedCostFunction(segment)
      [] costFunction = "noHighways" -> NoHighwaysCostFunction(segment)

\* The path read back from cameFrom without the std::reverse that follows.
RECURSIVE ReconstructPathUnreversed(_, _, _)
ReconstructPathUnreversed(cameFrom, start, node) ==
    IF node = start THEN <<start>>
    ELSE <<node>> \o ReconstructPathUnreversed(cameFrom, start, cameFrom[node])

\* The path read back from cameFrom, from node to start (the loop that
\* follows the pop of the goal), already reversed.
RECURSIVE ReconstructPath(_, _, _)
ReconstructPath(cameFrom, start, node) ==
    IF node = start THEN <<start>>
    ELSE Append(ReconstructPath(cameFrom, start, cameFrom[node]), node)

\* f[k] = v on a map that may not hold k yet.
MapPut(f, k, v) == IF k \in DOMAIN f THEN [f EXCEPT ![k] = v] ELSE f @@ (k :> v)

\* The relaxation loop over current->segments from position i.
\* st = [openSet, cameFrom, gScore].
RECURSIVE Relax(_, _, _, _, _, _, _)
Relax(g, current, end, costFunction, closedSet, i, st) ==
    LET segs == g.nodeObjs[current].segments
    IN  IF i > Len(segs) \/ ~Evaluated(st) THEN st
        ELSE LET segment == g.segObjs[segs[i]]
                 neighbor == segment.end
                 tentativeG == st.gScore[current] + CostOf(segment, costFunction)
                 better == neighbor \notin DOMAIN st.gScore
                           \/ tentativeG < st.gScore[neighbor]
                 st1 == IF neighbor \in closedSet \/ ~better THEN st
                        ELSE [openSet |-> st.openSet \cup
                                  {[node |-> neighbor,
                                    fScore |-> tentativeG
                                               + EstimateHeuristic(g, neighbor, end)]},
                              cameFrom |-> MapPut(st.cameFrom, neighbor, current),
                              gScore |-> MapPut(st.gScore, neighbor, tentativeG)]
             IN  Relax(g, current, end, costFunction, closedSet, i + 1, st1)

\* The main loop of A*.  The priority queue pops an entry of least fScore;
\* which one among equals is not specified, so the result is the set of the
\* paths that some order of popping produces (<<>> is the empty path).
RECURSIVE AStarLoop(_, _, _, _, _, _)
AStarLoop(g, start, end, costFunction, closedSet, st) ==
    IF st.openSet = {} \/ ~Evaluated(closedSet) THEN {<<>>}
    ELSE LET least == CHOOSE f \in {e.fScore : e \in st.openSet} :
                          \A e \in st.openSet : f <= e.fScore
             tops == {e \in st.openSet : e.fScore = least}
         IN  UNION {
               LET popped == [st EXCEPT !.openSet = @ \ {current}]
               IN  IF current.node = end
                   THEN {ReconstructPath(st.cameFrom, start, end)}
                   ELSE IF current.node \in closedSet
                   THEN AStarLoop(g, start, end, costFunction, closedSet, popped)
                   ELSE AStarLoop(g, start, end, costFunction,
                                  closedSet \cup {current.node},
                                  Relax(g, current.node, end, costFunction,
                                        closedSet \cup {current.node}, 1, popped))
               : current \in tops}

\* RoutingEngine::findPathWithCostFunction: the node paths A* can return.
FindPathWithCostFunction(g, start, end, costFunction) ==
    IF start = end THEN {<<start>>}
    ELSE AStarLoop(g, start, end, costFunction, {},
                   [openSet |-> {[node |-> start, fScore |-> 0]},
                    cameFrom |-> <<>>,
                    gScore |-> (start :> 0)])

\* findPath if it searched from the goal for the source.
FindPathFromGoal(g, start, end) ==
    FindPathWithCostFunction(g, end, start, "length")

\* RoutingEngine::findPath: A* with the segment length as the edge cost.
FindPath(g, start, end) == FindPathWithCostFunction(g, start, end, "length")

\* The Route struct.
Route(id, name, points, durationSeconds) ==
    [id |-> id, name |-> name, points |-> points,
     durationSeconds |-> durationSeconds]

\* Route(): a default-constructed route.
EmptyRoute == Route(Str(""), Str(""), <<>>, 0)

\* haversineDistance between two Locations.
Dist(p1, p2) ==
    HaversineDistance(p1.latitude, p1.longitude, p2.latitude, p2.longitude)

\* The sum of the entries lo .. hi of a sequence of numbers, by halving.
RECURSIVE SumSeq(_, _, _)
SumSeq(s, lo, hi) ==
    IF lo > hi THEN 0
    ELSE IF lo = hi THEN s[lo]
    ELSE LET mid == (lo + hi) \div 2
         IN  SumSeq(s, lo, mid) + SumSeq(s, mid + 1, hi)

\* The sum of the distances between consecutive points.
TotalDistance(points) ==
    LET legs == [i \in 1 .. Len(points) - 1 |-> Dist(points[i], points[i + 1])]
    IN  SumSeq(legs, 1, Len(points) - 1)

\* The time in milliseconds of the legs that start at a point with
\* speed > 0.1 m/s (speeds are tenths of a metre per second).
TotalTimeMs(points) ==
    LET legs == [i \in 1 .. Len(points) - 1 |->
                    IF ~IsNaN(points[i].speed) /\ points[i].speed > 1
                    THEN (Dist(points[i], points[i + 1]) * 10000)
                             \div points[i].speed
                    ELSE 0]
    IN  SumSeq(legs, 1, Len(points) - 1)

\* RoutingEngine::calculateRouteDuration
CalculateRouteDuration(points) ==
    With([totalTime \in {TotalTimeMs(points)} |->
        IF totalTime > 0 THEN totalTime \div 1000
        ELSE (TotalDistance(points) * 100) \div 972])

\* RoutingEngine::calculateCustomDuration; speedFactor is given in tenths.
CalculateCustomDuration(points, speedFactor10) ==
    (TotalDistance(points) * 1000) \div (972 * speedFactor10)

\* RoutingEngine::calculateBearingAndSpeed: each point but the last gets the
\* bearing to its successor and a speed of distance / 10 clamped to
\* [5, 30] m/s; the last point copies the bearing before it and has speed 0.
CalculateBearingAndSpeed(path) ==
    IF Len(path) < 2 THEN path
    ELSE LET n == Len(path)
             bearingAt(i) == CalculateBearing(path[i].latitude, path[i].longitude,
                                              path[i + 1].latitude,
                                              path[i + 1].longitude)
         IN  Strict([i \in 1 .. n |->
                IF i < n
                THEN [path[i] EXCEPT
                         !.bearing = bearingAt(i),
                         !.speed = Max(50, Min(300, Dist(path[i], path[i + 1])))]
                ELSE [path[i] EXCEPT !.bearing = bearingAt(n - 1), !.speed = 0]])

\* RoutingEngine::addIntermediatePoints: count points evenly spaced strictly
\* between start and end.
AddIntermediatePoints(points, start, end, count) ==
    points \o
    [i \in 1 .. count |->
        Location(start.latitude
                   + RoundDiv(i * (end.latitude - start.latitude), count + 1),
                 start.longitude
                   + RoundDiv(i * (end.longitude - start.longitude), count + 1),
                 0, 0, 0)]

\* RoutingEngine::findConnectingSegment: the first segment of from that ends
\* at to, or Nullptr.
FindConnectingSegment(g, from, to) ==
    LET segs == g.nodeObjs[from].segments
        hits == {i \in DOMAIN segs : g.segObjs[segs[i]].end = to}
    IN  IF hits = {} THEN Nullptr
        ELSE segs[CHOOSE i \in hits : \A j \in hits : i <= j]

\* The first pass of smoothRoutePath from point i: a point is kept when the
\* bearing turns by more than MIN_ANGLE_CHANGE = 20 degrees at it or when it
\* is more than 50 m from the last point kept.
RECURSIVE SmoothPass1(_, _, _)
SmoothPass1(points, i, simplified) ==
    IF i > Len(points) - 1 THEN simplified
    ELSE LET prev == simplified[Len(simplified)]
             curr == points[i]
             next == points[i + 1]
             bearing1 == CalculateBearing(prev.latitude, prev.longitude,
                                          curr.latitude, curr.longitude)
             bearing2 == CalculateBearing(curr.latitude, curr.longitude,
                                          next.latitude, next.longitude)
             diff == BearingDiff(bearing1, bearing2)
         IN  IF diff > 20 \/ Dist(prev, curr) > 50
             THEN SmoothPass1(points, i + 1, Append(simplified, curr))
             ELSE SmoothPass1(points, i + 1, simplified)

\* The second pass of smoothRoutePath from point i: a point is dropped when
\* the straight line from the last point kept to its successor is shorter
\* than 0.8 times the way through it.
RECURSIVE SmoothPass2(_, _, _)
SmoothPass2(simplified, i, filtered) ==
    IF i > Len(simplified) - 1 THEN filtered
    ELSE LET prev == filtered[Len(filtered)]
             curr == simplified[i]
             next == simplified[i + 1]
             prevToCurrDist == Dist(prev, curr)
             currToNextDist == Dist(curr, next)
             prevToNextDist == Dist(prev, next)
         IN  IF 10 * prevToNextDist < (prevToCurrDist + currToNextDist) * 8
             THEN SmoothPass2(simplified, i + 1, filtered)
             ELSE SmoothPass2(simplified, i + 1, Append(filtered, curr))

\* The second pass of smoothRoutePath, run when the first left more than
\* three points.
SmoothSecond(pass1) ==
    IF Len(pass1) > 3
    THEN Append(SmoothPass2(pass1, 2, <<pass1[1]>>), pass1[Len(pass1)])
    ELSE pass1

\* RoutingEngine::smoothRoutePath, on the points of the route.
SmoothRoutePath(points) ==
    IF Len(points) < 3 THEN points
    ELSE CalculateBearingAndSpeed(
             SmoothSecond(Append(SmoothPass1(points, 2, <<points[1]>>),
                                 points[Len(points)])))

\* The loop of createDetailedRoute over the node path from position i.
RECURSIVE PathPoints(_, _, _, _)
PathPoints(g, path, i, allPoints) ==
    IF i > Len(path) \/ ~Evaluated(allPoints) THEN allPoints
    ELSE LET current == g.nodeObjs[path[i]]
             currentLoc == Location(current.latitude, current.longitude, 0, 0, 0)
         IN  IF i < Len(path)
             THEN LET next == g.nodeObjs[path[i + 1]]
                      nextLoc == Location(next.latitude, next.longitude, 0, 0, 0)
                      nodeDist == Dist(currentLoc, nextLoc)
                      pointCount == Max(2, nodeDist \div 20)
                  IN  IF FindConnectingSegment(g, path[i], path[i + 1]) # Nullptr
                      THEN PathPoints(g, path, i + 1, Append(allPoints, currentLoc))
                      ELSE PathPoints(g, path, i + 1,
                                      AddIntermediatePoints(
                                          Append(allPoints, currentLoc),
                                          currentLoc, nextLoc, pointCount))
             ELSE PathPoints(g, path, i + 1, Append(allPoints, currentLoc))

\* Location(node->latitude, node->longitude, 0, 0)
NodeLocation(g, node) ==
    Location(g.nodeObjs[node].latitude, g.nodeObjs[node].longitude, 0, 0, 0)

\* The points createDetailedRoute adds between two places more than 10 m
\* apart.
Connect(points, from, to) ==
    IF Dist(from, to) > 10 THEN AddIntermediatePoints(points, from, to, 3)
    ELSE points

\* The end of createDetailedRoute: bearings and speeds, the duration of the
\* unsimplified points, then the simplification.
FinishRoute(id, allPoints) ==
    Route(id, Str("Route to Destination"), SmoothRoutePath(allPoints),
          CalculateRouteDuration(allPoints))

\* The points of createDetailedRoute if it did not push the end.
EndingAtLastNode(allPoints, end) == allPoints

\* The last push of createDetailedRoute: allPoints.push_back(end)
EndingAt(allPoints, end) == Append(allPoints, end)

\* RoutingEngine::createDetailedRoute
CreateDetailedRoute(g, path, id, start, end) ==
    IF path = <<>>
    THEN FinishRoute(id, CalculateBearingAndSpeed(<<start, end>>))
    ELSE FinishRoute(id, CalculateBearingAndSpeed(EndingAt(
             Connect(PathPoints(g, path, 1,
                                Connect(<<start>>, start,
                                        NodeLocation(g, path[1]))),
                     NodeLocation(g, path[Len(path)]), end),
             end)))

\* The std::uniform_real_distribution(-0.000005, 0.000005) added to each
\* interior point of the direct route is about half a coordinate unit: the
\* model draws, for a route, one of the patterns of JitterPatterns, a cycle
\* of <<latitude, longitude>> offsets applied to the interior points in turn.
JitterPatterns ==
    {<< <<0, 0>> >>, << <<1, -1>>, <<0, 0>>, <<-1, 1>> >>}

JitterAt(jit, i) == jit[((i - 1) % Len(jit)) + 1]

\* Interior point i of createDirectRoute before the jitter is added.
DirectPoint(start, end, numPoints, i) ==
    [latitude |-> start.latitude
                  + RoundDiv(i * (end.latitude - start.latitude), numPoints - 1),
     longitude |-> start.longitude
                   + RoundDiv(i * (end.longitude - start.longitude), numPoints - 1)]

\* RoutingEngine::createDirectRoute: start, the interior points
\* 1 .. numPoints - 2, each with the bearing from the point pushed before it
\* and a speed of 10 m/s, then end.
DirectPoints(start, end, numPoints, jit) ==
    LET pushed(i) == IF i = 0
                     THEN [latitude |-> start.latitude,
                           longitude |-> start.longitude]
                     ELSE [latitude |-> DirectPoint(start, end, numPoints,
                                                    i).latitude
                                        + JitterAt(jit, i)[1],
                           longitude |-> DirectPoint(start, end, numPoints,
                                                     i).longitude
                                         + JitterAt(jit, i)[2]]
        point(back, here, p) ==
            Location(here.latitude, here.longitude,
                     CalculateBearing(back.latitude, back.longitude,
                                      p.latitude, p.longitude),
                     100, 0)
    IN  Strict(<<start>>
               \o [i \in 1 .. numPoints - 2 |->
                      point(pushed(i - 1), pushed(i),
                            DirectPoint(start, end, numPoints, i))]
               \o <<end>>)

\* The route createDirectRoute returns for the points it has built.
DirectRoute(id, points) ==
    Route(id, Str("Direct Route"), points, CalculateRouteDuration(points))

\* RoutingEngine::createDirectRoute
CreateDirectRoute(start, end, id, jit) ==
    DirectRoute(id, DirectPoints(start, end,
                                 Min(MAX_ROUTE_POINTS,
                                     Max(20, Dist(start, end)
                                                 \div ROUTE_POINT_SPACING)),
                                 jit))

\* The running sums 0, d1, d1 + d2, ... of the distances between the
\* consecutive points lo .. hi, by halving.
RECURSIVE CumDistancesRange(_, _, _)
CumDistancesRange(points, lo, hi) ==
    IF lo >= hi THEN <<0>>
    ELSE IF lo + 1 = hi THEN <<0, Dist(points[lo], points[hi])>>
    ELSE LET mid == (lo + hi) \div 2
             left == CumDistancesRange(points, lo, mid)
             right == CumDistancesRange(points, mid, hi)
             base == left[Len(left)]
         IN  left \o [j \in 1 .. Len(right) - 1 |-> base + right[j + 1]]

\* The distances of the legs alone, without the leading 0.
CumDistancesOfLegs(points) ==
    [i \in 1 .. Len(points) - 1 |-> Dist(points[i], points[i + 1])]

\* Entry i is the distance along the points up to point i.
CumDistances(points) == CumDistancesRange(points, 1, Len(points))

\* The interpolation of getRoutePointAtFraction on the leg p1 -> p2 of
\* length segmentDist, num / 9 metres into it.  A zero-length leg divides 0
\* by 0 and the coordinates are NaN.
PointOnLeg(p1, p2, num, segmentDist) ==
    IF segmentDist = 0
    THEN [latitude |-> NaN, longitude |-> NaN]
    ELSE [latitude |-> p1.latitude
              + RoundDiv(num * (p2.latitude - p1.latitude), 9 * segmentDist),
          longitude |-> p1.longitude
              + RoundDiv(num * (p2.longitude - p1.longitude), 9 * segmentDist)]

\* The first index i >= 2 whose cumulative distance reaches k / 9 of the
\* total.
FirstReaching(cumDistances, k) ==
    LET hits == {i \in 2 .. Len(cumDistances) :
                    9 * cumDistances[i] >= cumDistances[Len(cumDistances)] * k}
    IN  CHOOSE h \in hits : \A j \in hits : h <= j

\* The loop of getRoutePointAtFraction stopping at index i.
PointAtIndex(points, cumDistances, k, i) ==
    PointOnLeg(points[i - 1], points[i],
               cumDistances[Len(cumDistances)] * k - 9 * cumDistances[i - 1],
               cumDistances[i] - cumDistances[i - 1])

\* RoutingEngine::getRoutePointAtFraction at the fraction k / 9, the fractions
\* isRouteDifferentEnough samples.
GetRoutePointAtFraction(points, k) ==
    IF points = <<>> THEN [latitude |-> 0, longitude |-> 0]
    ELSE IF Len(points) = 1 \/ k <= 0
    THEN [latitude |-> points[1].latitude, longitude |-> points[1].longitude]
    ELSE IF k >= 9
    THEN [latitude |-> points[Len(points)].latitude,
          longitude |-> points[Len(points)].longitude]
    ELSE With([cumDistances \in {CumDistances(points)} |->
             PointAtIndex(points, cumDistances, k,
                          FirstReaching(cumDistances, k))])

\* The test isRouteDifferentEnough applies to a pair of samples: within
\* 200 m of each other; a comparison with NaN is false.
SamplesShared(p1, p2) ==
    /\ ~IsNaN(p1.latitude)
    /\ ~IsNaN(p2.latitude)
    /\ HaversineDistance(p1.latitude, p1.longitude,
                         p2.latitude, p2.longitude) < 200

\* RoutingEngine::isRouteDifferentEnough: fewer than 70% of ten samples lie
\* within 200 m of each other.
IsRouteDifferentEnough(route1, route2) ==
    IF Len(route1.points) < 2 \/ Len(route2.points) < 2 THEN FALSE
    ELSE IF \/ Dist(route1.points[1], route2.points[1]) > 100
            \/ Dist(route1.points[Len(route1.points)],
                    route2.points[Len(route2.points)]) > 100
    THEN FALSE
    ELSE 10 * Cardinality({k \in 0 .. 9 :
                 SamplesShared(GetRoutePointAtFraction(route1.points, k),
                               GetRoutePointAtFraction(route2.points, k))})
         < 7 * 10

\* RoutingEngine::generateRouteId: "route-" and eight random hexadecimal
\* digits; n is the number drawn.
GenerateRouteId(n) == Str2("route-", n)

\* The candidate generateFastRoute makes of the detailed route.
FastRoute(route) ==
    [route EXCEPT !.name = Str("Fastest Route"),
                  !.durationSeconds = CalculateCustomDuration(route.points, 12)]

\* RoutingEngine::generateFastRoute, for each path the search may return.
GenerateFastRoute(g, start, end, startLoc, endLoc, id) ==
    {IF path = <<>> THEN EmptyRoute
     ELSE FastRoute(CreateDetailedRoute(g, path, id, startLoc, endLoc)) :
     path \in FindPathWithCostFunction(g, start, end, "speed")}

\* The candidate generateNoHighwaysRoute makes of the detailed route.
NoHighwaysRoute(route) ==
    [route EXCEPT !.name = Str("No Highways"),
                  !.durationSeconds = CalculateCustomDuration(route.points, 8)]

\* RoutingEngine::generateNoHighwaysRoute, for each path the search may
\* return.
GenerateNoHighwaysRoute(g, start, end, startLoc, endLoc, id) ==
    {IF path = <<>> THEN EmptyRoute
     ELSE NoHighwaysRoute(CreateDetailedRoute(g, path, id, startLoc, endLoc)) :
     path \in FindPathWithCostFunction(g, start, end, "noHighways")}

\* A candidate of generateAlternatives is kept when it has points and
\* differs enough from the primary route.
Accepted(route, primaryRoute) ==
    IF route.points # <<>> /\ IsRouteDifferentEnough(route, primaryRoute)
    THEN <<route>>
    ELSE <<>>

\* generateAlternatives once the nodes nearest to start and end are found.
AlternativesBetween(g, startNode, endNode, primaryRoute, start, end, ch) ==
    IF startNode = Nullptr \/ endNode = Nullptr
    THEN {[routes |-> <<>>, graph |-> g]}
    ELSE {[routes |-> Accepted(f, primaryRoute) \o Accepted(n, primaryRoute),
           graph |-> g] :
          f \in GenerateFastRoute(g, startNode, endNode, start, end,
                                  GenerateRouteId(ch.ids[2])),
          n \in GenerateNoHighwaysRoute(g, startNode, endNode, start, end,
                                        GenerateRouteId(ch.ids[3]))}

\* RoutingEngine::generateAlternatives: the set of [routes, graph] outcomes.
\* ch.ids[2], ch.ids[3] are the ids drawn for the two candidates.
GenerateAlternatives(g, primaryRoute, start, end, ch) ==
    IF Len(primaryRoute.points) < 2 THEN {[routes |-> <<>>, graph |-> g]}
    ELSE With([s \in {FindNearestNode(g, start, DefaultSearchRadius, ch.ord)} |->
             With([e \in {FindNearestNode(s.graph, end, DefaultSearchRadius,
                                          ch.ord)} |->
                 AlternativesBetween(e.graph, s.node, e.node, primaryRoute,
                                     start, end, ch)])])

\* The result of calculateRoutes for a primary route: the route, then its
\* alternatives.
WithAlternatives(g, primaryRoute, start, end, ch) ==
    {[routes |-> <<primaryRoute>> \o alt.routes, graph |-> alt.graph] :
     alt \in GenerateAlternatives(g, primaryRoute, start, end, ch)}

\* calculateRoutes from the nearest nodes on if it returned no route where
\* it finds no node or no path.
RoutesBetweenOrNone(g, startNode, endNode, start, end, direct, ch) ==
    IF startNode = Nullptr \/ endNode = Nullptr
    THEN {[routes |-> <<>>, graph |-> g]}
    ELSE UNION {IF primaryPath = <<>>
                THEN {[routes |-> <<>>, graph |-> g]}
                ELSE WithAlternatives(
                         g,
                         CreateDetailedRoute(g, primaryPath,
                                             GenerateRouteId(ch.ids[1]),
                                             start, end),
                         start, end, ch) :
                primaryPath \in FindPath(g, startNode, endNode)}

\* calculateRoutes once the nodes nearest to start and end are found;
\* direct is the direct route it falls back to.
RoutesBetween(g, startNode, endNode, start, end, direct, ch) ==
    IF startNode = Nullptr \/ endNode = Nullptr
    THEN {[routes |-> <<direct>>, graph |-> g]}
    ELSE UNION {IF primaryPath = <<>>
                THEN {[routes |-> <<direct>>, graph |-> g]}
                ELSE WithAlternatives(
                         g,
                         CreateDetailedRoute(g, primaryPath,
                                             GenerateRouteId(ch.ids[1]),
                                             start, end),
                         start, end, ch) :
                primaryPath \in FindPath(g, startNode, endNode)}

\* The distance test of calculateRoutes with the limit a thousand times too
\* large (kilometres taken for metres).
TooFarInKilometres(start, end) ==
    Dist(start, end) > 1000 * MAX_ROUTE_DISTANCE

\* The distance test of calculateRoutes: directDistance > MAX_ROUTE_DISTANCE
TooFar(start, end) == Dist(start, end) > MAX_ROUTE_DISTANCE

\* RoutingEngine::calculateRoutes: the set of [routes, graph] outcomes, graph
\* being the road graph after the call.  ch holds what the call draws: the
\* route ids ch.ids, the jitter pattern ch.jit and the order ch.ord in which
\* the nearest-node searches traverse the nearby segments.
CalculateRoutes(g, start, end, ch) ==
    IF TooFar(start, end)
    THEN {[routes |-> <<CreateDirectRoute(start, end,
                                          GenerateRouteId(ch.ids[1]), ch.jit)>>,
           graph |-> g]}
    ELSE With([s \in {FindNearestNode(g, start, NODE_SEARCH_RADIUS, ch.ord)} |->
             With([e \in {FindNearestNode(s.graph, end, NODE_SEARCH_RADIUS,
                                          ch.ord)} |->
                 RoutesBetween(e.graph, s.node, e.node, start, end,
                               CreateDirectRoute(start, end,
                                                 GenerateRouteId(ch.ids[1]),
                                                 ch.jit),
                               ch)])])


(***************************************************************************)
(* The route matcher (route_matcher.cpp).  A std::optional is a sequence   *)
(* of at most one element.  Indices into the route's points are the code's *)
(* (from 0); point i of the code is points[i + 1] here.                    *)
(***************************************************************************)
\* MAX_DISTANCE_TO_SEGMENT = 50.0 metres
MAX_DISTANCE_TO_SEGMENT == 50

\* SEGMENT_SEARCH_RADIUS = 100.0 metres
SEGMENT_SEARCH_RADIUS == 100

\* std::nullopt, and an optional that holds x.
None == <<>>

Some(x) == <<x>>

HasValue(o) == o # <<>>

\* RouteMatcher after construction.
NewRouteMatcher ==
    [currentRoute |-> None, lastLocation |-> None,
     cumulativeDistances |-> <<>>, routeSegments |-> <<>>]

\* 1000 * sin(k degrees) for k = 0 .. 90, rounded to the nearest integer.
SinMilli ==
    <<0, 17, 35, 52, 70, 87, 105, 122, 139, 156, 174, 191, 208, 225, 242,
      259, 276, 292, 309, 326, 342, 358, 375, 391, 407, 423, 438, 454, 469,
      485, 500, 515, 530, 545, 559, 574, 588, 602, 616, 629, 643, 656, 669,
      682, 695, 707, 719, 731, 743, 755, 766, 777, 788, 799, 809, 819, 829,
      839, 848, 857, 866, 875, 883, 891, 899, 906, 914, 921, 927, 934, 940,
      946, 951, 956, 961, 966, 970, 974, 978, 982, 985, 988, 990, 993, 995,
      996, 998, 999, 999, 1000, 1000>>

\* 1000 * std::sin and 1000 * std::cos of an angle in whole degrees.
Sin(deg) ==
    LET a == deg % 360
    IN  IF a <= 90 THEN SinMilli[a + 1]
        ELSE IF a <= 180 THEN SinMilli[180 - a + 1]
        ELSE IF a <= 270 THEN -SinMilli[a - 180 + 1]
        ELSE -SinMilli[360 - a + 1]

Cos(deg) == Sin(deg + 90)

\* The index and value of the first least entry among s[lo .. hi], by
\* halving (the loops that keep the first strictly smaller candidate).
RECURSIVE FirstMin(_, _, _)
FirstMin(s, lo, hi) ==
    IF lo = hi THEN [index |-> lo, value |-> s[lo]]
    ELSE LET mid == (lo + hi) \div 2
             left == FirstMin(s, lo, mid)
             right == FirstMin(s, mid + 1, hi)
         IN  IF right.value < left.value THEN right ELSE left

\* RouteMatcher::projectOntoSegment for a segment from (y1, x1) to (y2, x2):
\* the clamped projection, with the segment's bearing turned around when the
\* fix moves (speed > 0.5 m/s) against the segment.
ProjectOntoSegmentAt(loc, y1, x1, y2, x2) ==
    LET dx == x2 - x1
        dy == y2 - y1
        against == /\ ~IsNaN(loc.speed) /\ loc.speed > 5
                   /\ ~IsNaN(loc.bearing)
                   /\ dx * Sin(loc.bearing) + dy * Cos(loc.bearing) < 0
        projected(p, segmentBearing) ==
            Location(p.y, p.x,
                     IF against THEN (segmentBearing + 180) % 360
                     ELSE segmentBearing,
                     loc.speed, 0)
    IN  IF dx * dx + dy * dy <= 1 THEN Location(y1, x1, 0, 0, 0)
        ELSE projected(ProjectPoint(loc.longitude, loc.latitude, x1, y1, x2, y2),
                       CalculateBearing(y1, x1, y2, x2))

\* RouteMatcher::projectOntoSegment on a segment of the graph.
ProjectOntoSegment(g, loc, segment) ==
    LET s == g.nodeObjs[g.segObjs[segment].start]
        e == g.nodeObjs[g.segObjs[segment].end]
    IN  ProjectOntoSegmentAt(loc, s.latitude, s.longitude, e.latitude, e.longitude)

\* RouteMatcher::calculateSegmentToSegmentDistance: the lesser of the
\* distances of the first segment's two ends to the second segment.
CalculateSegmentToSegmentDistance(lat1a, lon1a, lat1b, lon1b, lat2a, lon2a, lat2b, lon2b) ==
    LET distanceTo(lat, lon, proj) ==
            HaversineDistance(lat, lon, proj.latitude, proj.longitude)
    IN  Min(distanceTo(lat1a, lon1a,
                       ProjectOntoSegmentAt(Location(lat1a, lon1a, 0, 0, 0),
                                            lat2a, lon2a, lat2b, lon2b)),
            distanceTo(lat1b, lon1b,
                       ProjectOntoSegmentAt(Location(lat1b, lon1b, 0, 0, 0),
                                            lat2a, lon2a, lat2b, lon2b)))

\* RouteMatcher::isSegmentOnRoute: some leg of the route has an end within
\* MATCH_THRESHOLD = 20 m of an end of the segment, or lies within 20 m of it.
IsSegmentOnRoute(m, g, segment) ==
    IF ~HasValue(m.currentRoute) \/ segment = Nullptr THEN FALSE
    ELSE LET s == g.nodeObjs[g.segObjs[segment].start]
             e == g.nodeObjs[g.segObjs[segment].end]
             points == m.currentRoute[1].points
         IN  \E i \in 1 .. Len(points) - 1 :
                LET a == points[i]
                    b == points[i + 1]
                IN  \/ HaversineDistance(s.latitude, s.longitude,
                                         a.latitude, a.longitude) < 20
                    \/ HaversineDistance(s.latitude, s.longitude,
                                         b.latitude, b.longitude) < 20
                    \/ HaversineDistance(e.latitude, e.longitude,
                                         a.latitude, a.longitude) < 20
                    \/ HaversineDistance(e.latitude, e.longitude,
                                         b.latitude, b.longitude) < 20
                    \/ CalculateSegmentToSegmentDistance(
                           s.latitude, s.longitude, e.latitude, e.longitude,
                           a.latitude, a.longitude, b.latitude, b.longitude) < 20

\* RouteMatcher::calculateMatchScore, times 720: the score is
\* (distance + 0.5 * bearingDiff / 180 * 50) * routeBonus * speedFactor with
\* routeBonus in {0.5, 1} and speedFactor in {0.8, 1, 1.2}.  A NaN bearing
\* makes the score NaN, which is never less than the best so far.
CalculateMatchScore(m, g, segment, loc) ==
    IF segment = Nullptr THEN DBL_MAX
    ELSE LET seg == g.segObjs[segment]
             s == g.nodeObjs[seg.start]
             e == g.nodeObjs[seg.end]
             distanceTo(projected) ==
                 HaversineDistance(loc.latitude, loc.longitude,
                                   projected.latitude, projected.longitude)
             segmentBearing == CalculateBearing(s.latitude, s.longitude,
                                                e.latitude, e.longitude)
             bearingDiff == BearingDiff(segmentBearing, loc.bearing)
             isOnRoute == /\ HasValue(m.currentRoute)
                          /\ segment \in Range(m.routeSegments)
             routeBonus == IF isOnRoute THEN 1 ELSE 2
             speedFactor ==
                 IF ~IsNaN(loc.speed) /\ loc.speed > 10
                 THEN IF seg.speedLimit > 60 THEN 8
                      ELSE IF seg.speedLimit < 30 /\ loc.speed > 100 THEN 12
                      ELSE 10
                 ELSE IF ~IsNaN(loc.speed) /\ loc.speed < 50 /\ seg.speedLimit > 70
                 THEN 12
                 ELSE 10
             score(perpDistance) ==
                 IF perpDistance > MAX_DISTANCE_TO_SEGMENT THEN DBL_MAX
                 ELSE IF IsNaN(loc.bearing) THEN DBL_MAX
                 ELSE (36 * perpDistance + 5 * bearingDiff)
                      * routeBonus * speedFactor
         IN  score(distanceTo(ProjectOntoSegment(g, loc, segment)))

\* RouteMatcher::findClosestPointOnRoute: the index of the first nearest
\* point, advanced by one when the fix is past 70% of the leg that starts
\* there and heads (within 45 degrees) for the next point; -1 without points.
FindClosestPointOnRoute(m, loc) ==
    IF ~HasValue(m.currentRoute) \/ m.currentRoute[1].points = <<>> THEN -1
    ELSE LET points == m.currentRoute[1].points
             dists == Strict([i \in 1 .. Len(points) |-> Dist(loc, points[i])])
             passed(segmentLength, distToNext) ==
                 /\ segmentLength > 0
                 /\ 10 * (segmentLength - distToNext) > 7 * segmentLength
             advanced(closestIdx) ==
                 IF /\ closestIdx < Len(points) - 1
                    /\ passed(Dist(points[closestIdx + 1], points[closestIdx + 2]),
                              Dist(loc, points[closestIdx + 2]))
                    /\ ~IsNaN(loc.bearing)
                    /\ BearingDiff(
                           CalculateBearing(loc.latitude, loc.longitude,
                                            points[closestIdx + 2].latitude,
                                            points[closestIdx + 2].longitude),
                           loc.bearing) < 45
                 THEN closestIdx + 1
                 ELSE closestIdx
         IN  advanced(FirstMin(dists, 1, Len(points)).index - 1)

\* The bearing change at point i (0-based) of the route.
BearingChangeAt(points, i) ==
    BearingDiff(CalculateBearing(points[i].latitude, points[i].longitude,
                                 points[i + 1].latitude, points[i + 1].longitude),
                CalculateBearing(points[i + 1].latitude, points[i + 1].longitude,
                                 points[i + 2].latitude, points[i + 2].longitude))

\* RouteMatcher::findNextManeuverPoint: the first point after currentIndex
\* and before the last where the bearing changes by more than 30 degrees,
\* else the last point; -1 for an invalid index.
FindNextManeuverPoint(m, currentIndex) ==
    IF \/ ~HasValue(m.currentRoute)
       \/ m.currentRoute[1].points = <<>>
       \/ currentIndex < 0
       \/ currentIndex >= Len(m.currentRoute[1].points)
    THEN -1
    ELSE LET points == m.currentRoute[1].points
             firstOr(hits, default) ==
                 IF hits = {} THEN default
                 ELSE CHOOSE i \in hits : \A j \in hits : i <= j
         IN  firstOr({i \in currentIndex + 1 .. Len(points) - 2 :
                         BearingChangeAt(points, i) > 30},
                     Len(points) - 1)

\* RouteMatcher::determineNextManeuver
DetermineNextManeuver(m, currentIndex, maneuverIndex) ==
    IF \/ ~HasValue(m.currentRoute)
       \/ m.currentRoute[1].points = <<>>
       \/ currentIndex < 0
       \/ maneuverIndex <= currentIndex
       \/ maneuverIndex >= Len(m.currentRoute[1].points)
    THEN "Follow route"
    ELSE LET points == m.currentRoute[1].points
             after == IF maneuverIndex + 1 < Len(points) THEN maneuverIndex + 1
                      ELSE maneuverIndex
             currentBearing ==
                 CalculateBearing(points[maneuverIndex].latitude,
                                  points[maneuverIndex].longitude,
                                  points[maneuverIndex + 1].latitude,
                                  points[maneuverIndex + 1].longitude)
             nextBearing ==
                 CalculateBearing(points[maneuverIndex + 1].latitude,
                                  points[maneuverIndex + 1].longitude,
                                  points[after + 1].latitude,
                                  points[after + 1].longitude)
             normalized(raw) == IF raw > 180 THEN raw - 360
                                ELSE IF raw < -180 THEN raw + 360
                                ELSE raw
             maneuver(angle) ==
                 IF Abs(angle) < 20 THEN "Continue straight"
                 ELSE IF angle >= 20 /\ angle < 60 THEN "Turn slight right"
                 ELSE IF angle >= 60 /\ angle < 120 THEN "Turn right"
                 ELSE IF angle >= 120 THEN "Make a sharp right"
                 ELSE IF angle <= -20 /\ angle > -60 THEN "Turn slight left"
                 ELSE IF angle <= -60 /\ angle > -120 THEN "Turn left"
                 ELSE IF angle <= -120 THEN "Make a sharp left"
                 ELSE "Follow route"
         IN  maneuver(normalized(nextBearing - currentBearing))

\* The RouteMatch struct.
RouteMatch(streetName, nextManeuver, distanceToNext, lat, lon, bearing) ==
    [streetName |-> streetName, nextManeuver |-> nextManeuver,
     distanceToNext |-> distanceToNext, estimatedTimeOfArrival |-> "",
     matchedLatitude |-> lat, matchedLongitude |-> lon, matchedBearing |-> bearing]

\* RouteMatcher::createRouteMatch
CreateRouteMatch(m, g, matched, segment, closestPointIndex) ==
    LET streetName == IF segment # Nullptr THEN g.segObjs[segment].name
                      ELSE Str("Unknown Road")
        points == m.currentRoute[1].points
        cum == m.cumulativeDistances
        result(nextManeuver, distanceToNext) ==
            RouteMatch(streetName, nextManeuver, distanceToNext,
                       matched.latitude, matched.longitude, matched.bearing)
        toward(nextManeuverIndex) ==
            IF nextManeuverIndex > closestPointIndex
            THEN result(DetermineNextManeuver(m, closestPointIndex,
                                              nextManeuverIndex),
                        cum[nextManeuverIndex + 1] - cum[closestPointIndex + 1])
            ELSE IF closestPointIndex < Len(points) - 1
            THEN result("Arrive at destination",
                        cum[Len(cum)] - cum[closestPointIndex + 1])
            ELSE result("Arrive at destination", 0)
    IN  IF HasValue(m.currentRoute) /\ closestPointIndex >= 0
        THEN toward(FindNextManeuverPoint(m, closestPointIndex))
        ELSE result("Follow route", 0)

\* The road segment precalculateRouteSegments picks for the leg from p1 to
\* p2: among the segments near the leg's midpoint (50 m, else 100 m), the
\* first with the least distance + (bearingDiff / 45) * 20 (compared times
\* 9); Nullptr when none is near.
BestSegmentForLeg(g, p1, p2, ord) ==
    LET routeBearing == CalculateBearing(p1.latitude, p1.longitude,
                                         p2.latitude, p2.longitude)
        orElse(near, wider) == IF near = <<>> THEN wider ELSE near
        distanceTo(midpoint, projected) ==
            HaversineDistance(midpoint.latitude, midpoint.longitude,
                              projected.latitude, projected.longitude)
        score(midpoint, road) ==
            LET seg == g.segObjs[road]
                s == g.nodeObjs[seg.start]
                e == g.nodeObjs[seg.end]
            IN  9 * distanceTo(midpoint, ProjectOntoSegment(g, midpoint, road))
                + 4 * BearingDiff(CalculateBearing(s.latitude, s.longitude,
                                                   e.latitude, e.longitude),
                                  routeBearing)
        bestOf(midpoint, nearbyRoads) ==
            IF nearbyRoads = <<>> THEN Nullptr
            ELSE nearbyRoads[
                     FirstMin([k \in 1 .. Len(nearbyRoads) |->
                                  score(midpoint, nearbyRoads[k])],
                              1, Len(nearbyRoads)).index]
        bestNear(midpoint) ==
            bestOf(midpoint,
                   orElse(FindNearbyRoads(g, midpoint, 50, ord),
                          FindNearbyRoads(g, midpoint, 100, ord)))
    IN  bestNear(Location(RoundDiv(p1.latitude + p2.latitude, 2),
                          RoundDiv(p1.longitude + p2.longitude, 2), 0, 0, 0))

\* RouteMatcher::precalculateRouteSegments: the routeSegments of a route.
PrecalculateRouteSegments(g, currentRoute, ord) ==
    IF ~HasValue(currentRoute) \/ Len(currentRoute[1].points) < 2 THEN <<>>
    ELSE LET points == currentRoute[1].points
             best == [i \in 1 .. Len(points) - 1 |->
                         BestSegmentForLeg(g, points[i], points[i + 1], ord)]
             found(b) == b # Nullptr
         IN  SelectSeq(best, found)

\* setRoute if it kept the route the matcher has.
SetRouteIfNone(m, g, route, ord) ==
    IF HasValue(m.currentRoute) THEN m
    ELSE [m EXCEPT !.currentRoute = Some(route),
                   !.cumulativeDistances =
                       IF route.points = <<>> THEN <<>>
                       ELSE CumDistances(route.points),
                   !.routeSegments =
                       PrecalculateRouteSegments(g, Some(route), ord)]

\* RouteMatcher::setRoute: with no points it returns before routeSegments
\* is recomputed.
SetRoute(m, g, route, ord) ==
    IF route.points = <<>>
    THEN [m EXCEPT !.currentRoute = Some(route), !.cumulativeDistances = <<>>]
    ELSE [m EXCEPT !.currentRoute = Some(route),
                   !.cumulativeDistances = CumDistances(route.points),
                   !.routeSegments =
                       PrecalculateRouteSegments(g, Some(route), ord)]

\* The loop of match over segmentsToCheck: the first segment with the
\* least score below DBL_MAX and the location projected onto it, else no
\* segment and the location itself.
BestMatch(m, g, loc, segmentsToCheck) ==
    LET pick(best) ==
            IF segmentsToCheck = <<>> \/ best.value >= DBL_MAX
            THEN [bestSegment |-> Nullptr, matchedLocation |-> loc]
            ELSE [bestSegment |-> segmentsToCheck[best.index],
                  matchedLocation |->
                      ProjectOntoSegment(g, loc, segmentsToCheck[best.index])]
    IN  pick(FirstMin([k \in 1 .. Len(segmentsToCheck) |->
                          CalculateMatchScore(m, g, segmentsToCheck[k], loc)],
                      1, Len(segmentsToCheck)))

\* match from the search for nearby roads on.
MatchNear(m, g, loc, ord, closestPointIndex) ==
    LET orElse(first, second) == IF first = <<>> THEN second ELSE first
        onRoute(segment) == IsSegmentOnRoute(m, g, segment)
        preferred(nearbyRoads) == orElse(SelectSeq(nearbyRoads, onRoute),
                                         nearbyRoads)
        matched(best) == CreateRouteMatch(m, g, best.matchedLocation,
                                          best.bestSegment, closestPointIndex)
    IN  matched(BestMatch(m, g, loc,
            preferred(orElse(
                FindNearbyRoads(g, loc, SEGMENT_SEARCH_RADIUS, ord),
                FindNearbyRoads(g, loc, SEGMENT_SEARCH_RADIUS * 3, ord)))))

\* match once the closest point of the route is known.
MatchFrom(m, g, loc, ord, closestPointIndex) ==
    IF closestPointIndex < 0
    THEN RouteMatch(Str("Route matching error"), "Please recalculate route", 0,
                    loc.latitude, loc.longitude, loc.bearing)
    ELSE MatchNear(m, g, loc, ord, closestPointIndex)

\* match if it dropped the precalculated route segments once it had used
\* them.
MatchForgetting(m, g, loc, ord) ==
    [matcher |-> [m EXCEPT !.lastLocation = Some(loc), !.routeSegments = <<>>],
     out |-> IF ~HasValue(m.currentRoute)
             THEN RouteMatch(Str("No active route"), "Set a destination", 0,
                             loc.latitude, loc.longitude, loc.bearing)
             ELSE MatchFrom(m, g, loc, ord, FindClosestPointOnRoute(m, loc))]

\* RouteMatcher::match: the matcher afterwards and the RouteMatch returned.
Match(m, g, loc, ord) ==
    [matcher |-> [m EXCEPT !.lastLocation = Some(loc)],
     out |-> IF ~HasValue(m.currentRoute)
             THEN RouteMatch(Str("No active route"), "Set a destination", 0,
                             loc.latitude, loc.longitude, loc.bearing)
             ELSE MatchFrom(m, g, loc, ord, FindClosestPointOnRoute(m, loc))]

(***************************************************************************)
(* The inputs of the engine.  The map is a small town: a residential road  *)
(* 1 - 2 - 3 running east, a motorway 1 - 4 - 3 bypassing it to the north, *)
(* and a one-way residential street leading from 5 into 1.                 *)
(***************************************************************************)
TownMap ==
    [nodes |-> << [id |-> 1, lat |-> 1000, lon |-> 1000],
                  [id |-> 2, lat |-> 1000, lon |-> 2000],
                  [id |-> 3, lat |-> 1000, lon |-> 3000],
                  [id |-> 4, lat |-> 1500, lon |-> 2000],
                  [id |-> 5, lat |-> 400, lon |-> 1000] >>,
     ways |-> << [id |-> 10, nodeRefs |-> <<1, 2, 3>>,
                  tags |-> ("highway" :> "residential")],
                 [id |-> 11, nodeRefs |-> <<1, 4, 3>>,
                  tags |-> ("highway" :> "motorway")],
                 [id |-> 12, nodeRefs |-> <<5, 1>>,
                  tags |-> ("highway" :> "residential" @@ "oneway" :> "yes")] >>]

Documents == {TownMap}

\* Positions: the west end of town, its east end, the head of the one-way
\* street, and two places half a kilometre apart in the countryside, more
\* than ten kilometres east of every road.
West == [latitude |-> 1000, longitude |-> 1000]
East == [latitude |-> 1000, longitude |-> 3000]
South == [latitude |-> 400, longitude |-> 1000]
Far == [latitude |-> 1000, longitude |-> 16000]
Farther == [latitude |-> 1500, longitude |-> 16000]

\* The fixes the platform delivers: heading east at 10 m/s, 5 m accuracy.
Fixes ==
    {Location(p.latitude, p.longitude, 90, 100, 50) : p \in {West, Far}}

Destinations == {East, South, Farther}

\* Milliseconds between two calls of updateLocation.
Elapsed == {1000}

\* The numbers generateRouteId may draw, and the draws of one calculateRoutes
\* call: the ids of the primary route and of the two candidates.
MaxRouteId == 3
RouteIdNumbers == 1 .. MaxRouteId
RouteIdDraws == {<<1, 2, 3>>, <<1, 1, 2>>}

\* How often the bounded operations are called.
MaxLoads == 1
MaxFixes == 2
MaxDestinations == 1
MaxSwitches == 1

(***************************************************************************)
(* The navigation engine (navigation_engine.cpp): the state of one engine  *)
(* and one action per public operation.                                    *)
(***************************************************************************)
VARIABLES
    roadGraph,            \* RoadGraph: nodes, segments, spatial index
    osmNodeMap,           \* OSMParser::osmNodeMap
    locationFilter,       \* LocationFilter
    routeMatcher,         \* RouteMatcher
    currentLocation,      \* std::optional<Location>
    destinationLocation,  \* std::optional<Location>
    alternativeRoutes,    \* std::vector<Route>
    currentRoute,         \* std::optional<Route>
    clock,                \* the wall clock, in milliseconds
    calls,                \* how often each bounded operation has been called
    last                  \* the last call: operation, arguments, result and
                          \* the calculateRoutes call it made, if any

vars == <<roadGraph, osmNodeMap, locationFilter, routeMatcher, currentLocation,
          destinationLocation, alternativeRoutes, currentRoute, clock, calls,
          last>>

\* The record kept in last.
Call(op, args, result, routing) ==
    [op |-> op, args |-> args, result |-> result, routing |-> routing]

\* The calculateRoutes call a handler made: its arguments, what it drew and
\* what it returned.
Routing(start, end, ch, routes) ==
    Some([start |-> start, end |-> end, ch |-> ch, routes |-> routes])

\* What one call of a handler draws at random or leaves unspecified: the route
\* ids, the jitter of a direct route and the traversal order of the
\* unordered sets.  The draws are independent in the code; the model takes
\* enough combinations to see each value of each of them.
Choices ==
    {ch \in [ids : RouteIdDraws, jit : JitterPatterns, ord : IterationOrders] :
        \/ ch.ids = <<1, 2, 3>> /\ ch.jit = << <<0, 0>> >> /\ ch.ord = "asc"
        \/ ch.ids = <<1, 1, 2>> /\ ch.jit = << <<0, 0>> >> /\ ch.ord = "desc"
        \/ ch.ids = <<1, 2, 3>> /\ ch.jit # << <<0, 0>> >> /\ ch.ord = "desc"}

\* The call counters before any call.
NoCalls ==
    [loadOSM |-> 0, updateLocation |-> 0, setDestination |-> 0,
     switchToRoute |-> 0, addNode |-> 0, addSegment |-> 0, query |-> 0,
     process |-> 0, setRoute |-> 0, match |-> 0]

\* NavigationEngine::NavigationEngine
Init ==
    /\ roadGraph = EmptyGraph
    /\ osmNodeMap = <<>>
    /\ locationFilter = NewLocationFilter
    /\ routeMatcher = NewRouteMatcher
    /\ currentLocation = None
    /\ destinationLocation = None
    /\ alternativeRoutes = <<>>
    /\ currentRoute = None
    /\ clock = 0
    /\ calls = NoCalls
    /\ last = Call("init", <<>>, TRUE, None)

\* NavigationEngine::loadOSMFromAssets on an asset that decodes to doc.
LoadOSM(doc) ==
    /\ calls.loadOSM < MaxLoads
    /\ \E freed \in FreedMemory :
       \E r \in {LoadOSMData(roadGraph, osmNodeMap, doc, freed)} :
           /\ roadGraph' = r.graph
           /\ osmNodeMap' = r.osmNodeMap
           /\ last' = Call("loadOSM", <<doc>>,
                           /\ r.success
                           /\ DOMAIN r.graph.nodes # {}
                           /\ r.graph.segments # <<>>,
                           None)
    /\ calls' = [calls EXCEPT !.loadOSM = @ + 1]
    /\ UNCHANGED <<locationFilter, routeMatcher, currentLocation,
                   destinationLocation, alternativeRoutes, currentRoute, clock>>

\* The test of updateLocation that sends it to calculateRoutes, with the
\* emptiness test inverted.
NeedsRoutesInverted(destination, alternatives) ==
    destination # None /\ alternatives # <<>>

\* The test of updateLocation that sends it to calculateRoutes:
\* destinationLocation.has_value() && alternativeRoutes.empty()
NeedsRoutes(destination, alternatives) ==
    destination # None /\ alternatives = <<>>

\* The RouteMatch updateLocation returns without a current route, with the
\* matched latitude taken from the longitude.
NoActiveRouteSwapped(filtered) ==
    RouteMatch(Str("No active route"), "Set a destination", 0,
               filtered.longitude, filtered.longitude, filtered.bearing)

\* The RouteMatch updateLocation returns without a current route.
NoActiveRoute(filtered) ==
    RouteMatch(Str("No active route"), "Set a destination", 0,
               filtered.latitude, filtered.longitude, filtered.bearing)

\* NavigationEngine::updateLocation, elapsed milliseconds after the call
\* before it.  p is what the filter returns, outcome what calculateRoutes
\* returns when it is called, matcher1 the matcher after setRoute when it is
\* called, matched what match returns when it is called.
UpdateLocation(raw, elapsed, ch) ==
    /\ calls.updateLocation < MaxFixes
    /\ clock' = clock + elapsed
    /\ \E p \in {Process(locationFilter, raw, clock + elapsed, nanSign) :
                     nanSign \in NaNSigns} :
       LET routing == NeedsRoutes(destinationLocation, alternativeRoutes)
       IN
       \E outcome \in IF routing
                      THEN CalculateRoutes(roadGraph, p.out,
                                           destinationLocation[1], ch)
                      ELSE {[routes |-> alternativeRoutes, graph |-> roadGraph]} :
       LET adopt == routing /\ outcome.routes # <<>>
       IN
       \E matcher1 \in {IF adopt
                        THEN SetRoute(routeMatcher, outcome.graph,
                                      outcome.routes[1], ch.ord)
                        ELSE routeMatcher} :
       \E matched \in {IF adopt \/ currentRoute # None
                       THEN Match(matcher1, outcome.graph, p.out, ch.ord)
                       ELSE [matcher |-> matcher1,
                             out |-> NoActiveRoute(p.out)]} :
           /\ locationFilter' = p.filter
           /\ currentLocation' = Some(p.out)
           /\ roadGraph' = outcome.graph
           /\ alternativeRoutes' = outcome.routes
           /\ currentRoute' = IF adopt THEN Some(outcome.routes[1])
                              ELSE currentRoute
           /\ routeMatcher' = matched.matcher
           /\ last' = Call("updateLocation", <<raw>>, matched.out,
                           IF routing
                           THEN Routing(p.out, destinationLocation[1], ch,
                                        outcome.routes)
                           ELSE None)
    /\ calls' = [calls EXCEPT !.updateLocation = @ + 1]
    /\ UNCHANGED <<osmNodeMap, destinationLocation>>

\* The destination setDestination stores, with the coordinates in the wrong
\* order.
NewDestinationSwapped(lat, lon) == Some(Location(lon, lat, 0, 0, 0))

\* The destination setDestination stores: Location(latitude, longitude, 0, 0)
NewDestination(lat, lon) == Some(Location(lat, lon, 0, 0, 0))

\* NavigationEngine::setDestination, called at most `most` times.
SetDestinationUpTo(most, lat, lon, ch) ==
    /\ calls.setDestination < most
    /\ destinationLocation' = NewDestination(lat, lon)
    /\ IF currentLocation = None
       THEN /\ last' = Call("setDestination", <<lat, lon>>, TRUE, None)
            /\ UNCHANGED <<roadGraph, alternativeRoutes>>
       ELSE \E outcome \in CalculateRoutes(roadGraph, currentLocation[1],
                                           destinationLocation'[1], ch) :
                /\ roadGraph' = outcome.graph
                /\ alternativeRoutes' = outcome.routes
                /\ last' = Call("setDestination", <<lat, lon>>,
                                outcome.routes # <<>>,
                                Routing(currentLocation[1],
                                        destinationLocation'[1], ch,
                                        outcome.routes))
    /\ calls' = [calls EXCEPT !.setDestination = @ + 1]
    /\ UNCHANGED <<osmNodeMap, locationFilter, routeMatcher, currentLocation,
                   currentRoute, clock>>

\* NavigationEngine::setDestination
SetDestination(lat, lon, ch) ==
    SetDestinationUpTo(MaxDestinations, lat, lon, ch)

\* NavigationEngine::getAlternativeRoutes
GetAlternativeRoutes ==
    /\ last' = Call("getAlternativeRoutes", <<>>, alternativeRoutes, None)
    /\ UNCHANGED <<roadGraph, osmNodeMap, locationFilter, routeMatcher,
                   currentLocation, destinationLocation, alternativeRoutes,
                   currentRoute, clock, calls>>

\* The positions switchToRoute would find if it did not compare the ids.
RoutesWithAnyId(alternatives, routeId) == DOMAIN alternatives

\* The positions of the routes with the id that switchToRoute looks for.
RoutesWithId(alternatives, routeId) ==
    {i \in DOMAIN alternatives : alternatives[i].id = routeId}

\* The position switchToRoute would stop at if it searched from the back.
LastOf(hits) == CHOOSE i \in hits : \A j \in hits : i >= j

\* The position at which the loop of switchToRoute stops: the first hit.
FirstOf(hits) == CHOOSE i \in hits : \A j \in hits : i <= j

\* NavigationEngine::switchToRoute: the first route of alternativeRoutes
\* with the id becomes the current route and is handed to the matcher.
SwitchToRoute(routeId, ord) ==
    LET hits == RoutesWithId(alternativeRoutes, routeId)
        first == FirstOf(hits)
    IN  /\ calls.switchToRoute < MaxSwitches
        /\ IF hits # {}
           THEN /\ currentRoute' = Some(alternativeRoutes[first])
                /\ routeMatcher' = SetRoute(routeMatcher, roadGraph,
                                            alternativeRoutes[first], ord)
           ELSE UNCHANGED <<currentRoute, routeMatcher>>
        /\ last' = Call("switchToRoute", <<routeId>>, hits # {}, None)
        /\ calls' = [calls EXCEPT !.switchToRoute = @ + 1]
        /\ UNCHANGED <<roadGraph, osmNodeMap, locationFilter, currentLocation,
                       destinationLocation, alternativeRoutes, clock>>

Next ==
    \/ \E doc \in Documents : LoadOSM(doc)
    \/ \E raw \in Fixes, elapsed \in Elapsed, ch \in Choices :
           UpdateLocation(raw, elapsed, ch)
    \/ \E d \in Destinations, ch \in Choices :
           SetDestination(d.latitude, d.longitude, ch)
    \/ GetAlternativeRoutes
    \/ \E n \in RouteIdNumbers, ord \in IterationOrders :
           SwitchToRoute(GenerateRouteId(n), ord)

Spec == Init /\ [][Next]_vars

(***************************************************************************)
(* Properties of the navigation engine, checked under Spec.  A step of an  *)
(* operation is recognised by the call it records in last'; the unprimed   *)
(* variables are the engine before the call.                               *)
(***************************************************************************)
\* Whether a RouteMatch is the one returned without a current route.
IsNoRouteSentinel(match) ==
    /\ match.streetName = Str("No active route")
    /\ match.nextManeuver = "Set a destination"
    /\ match.distanceToNext = 0
    /\ match.estimatedTimeOfArrival = ""

\* C1: setDestination called while no fix has ever been stored records the
\* destination and returns true; the alternatives stay empty, no current
\* route is adopted, the matcher is handed no route and the road graph is
\* not touched.
C1_DeferredDestination ==
    [][(last'.op = "setDestination" /\ currentLocation = None)
       => /\ last'.result = TRUE
          /\ destinationLocation'
                 = Some(Location(last'.args[1], last'.args[2], 0, 0, 0))
          /\ alternativeRoutes' = <<>>
          /\ currentRoute' = None
          /\ routeMatcher' = routeMatcher
          /\ roadGraph' = roadGraph]_vars

\* A destination was set on a loaded map before any fix.
C1_Witness ==
    /\ last.op = "setDestination"
    /\ currentLocation = None
    /\ roadGraph.segments # <<>>
    /\ destinationLocation = Some(Location(East.latitude, East.longitude, 0, 0, 0))

\* C2: when the destination was set before any fix, the updateLocation that
\* brings the first fix computes the routes: afterwards the alternatives are
\* not empty, the current route is the first of them, the matcher's active
\* route is the same route, and the observation is not the no-route
\* sentinel.
C2_FirstFixRoutes ==
    [][(last'.op = "updateLocation" /\ destinationLocation # None
        /\ currentLocation = None)
       => /\ HasValue(last'.routing)
          /\ alternativeRoutes' # <<>>
          /\ alternativeRoutes' = last'.routing[1].routes
          /\ currentRoute' = Some(alternativeRoutes'[1])
          /\ routeMatcher'.currentRoute = currentRoute'
          /\ ~IsNoRouteSentinel(last'.result)]_vars

\* The first fix arrived after the destination and was routed over roads.
C2_Witness ==
    /\ last.op = "updateLocation"
    /\ calls.updateLocation = 1
    /\ HasValue(last.routing)
    /\ currentRoute # None
    /\ currentRoute[1].name = Str("Route to Destination")
    /\ routeMatcher.currentRoute = currentRoute

\* C3: in every reachable state, updateLocation called with a destination
\* set and no current route triggers routing, so that afterwards a current
\* route is active and the observation comes from matching.
C3_RoutesWheneverNoCurrentRoute ==
    [][(last'.op = "updateLocation" /\ destinationLocation # None
        /\ currentRoute = None)
       => /\ currentRoute' # None
          /\ routeMatcher'.currentRoute = currentRoute'
          /\ ~IsNoRouteSentinel(last'.result)]_vars

\* C4: switchToRoute with an id that no alternative has returns false and
\* leaves the current route, the alternatives, the destination, the current
\* fix and the matcher's active route, cumulative distances and route
\* segments unchanged.
C4_UnknownRouteId ==
    [][(last'.op = "switchToRoute"
        /\ \A i \in DOMAIN alternativeRoutes :
               alternativeRoutes[i].id # last'.args[1])
       => /\ last'.result = FALSE
          /\ currentRoute' = currentRoute
          /\ alternativeRoutes' = alternativeRoutes
          /\ destinationLocation' = destinationLocation
          /\ currentLocation' = currentLocation
          /\ routeMatcher'.currentRoute = routeMatcher.currentRoute
          /\ routeMatcher'.cumulativeDistances
                 = routeMatcher.cumulativeDistances
          /\ routeMatcher'.routeSegments = routeMatcher.routeSegments]_vars

\* A switch to an unknown id was refused while a route was being followed.
C4_Witness ==
    /\ last.op = "switchToRoute"
    /\ last.result = FALSE
    /\ currentRoute # None
    /\ Len(alternativeRoutes) >= 2
    /\ routeMatcher.routeSegments # <<>>

\* C5: switchToRoute returns true exactly when some alternative has the id;
\* then the current route is the first alternative with that id and the
\* matcher's route is replaced by the same route; the alternatives are
\* unchanged in every case.
C5_SwitchAdoptsFirstMatch ==
    [][last'.op = "switchToRoute"
       => LET id == last'.args[1]
              hits == {i \in DOMAIN alternativeRoutes :
                          alternativeRoutes[i].id = id}
          IN  /\ last'.result = (hits # {})
              /\ alternativeRoutes' = alternativeRoutes
              /\ hits # {}
                 => \E i \in hits :
                        /\ \A j \in hits : i <= j
                        /\ currentRoute' = Some(alternativeRoutes[i])
                        /\ routeMatcher'.currentRoute
                               = Some(alternativeRoutes[i])]_vars

\* A switch succeeded where two different alternatives carry the id and the
\* first of them became the current route.
C5_Witness ==
    /\ last.op = "switchToRoute"
    /\ last.result = TRUE
    /\ \E i, j \in DOMAIN alternativeRoutes :
           /\ i < j
           /\ alternativeRoutes[i].id = last.args[1]
           /\ alternativeRoutes[j].id = last.args[1]
           /\ alternativeRoutes[i] # alternativeRoutes[j]
           /\ currentRoute = Some(alternativeRoutes[i])

\* C6: on a freshly constructed engine without a destination, the first
\* updateLocation returns the sentinel ("No active route", "Set a
\* destination", 0, "") whose matched latitude and longitude are those of
\* the raw fix.
C6_FirstFixWithoutDestination ==
    [][(last'.op = "updateLocation" /\ currentLocation = None
        /\ destinationLocation = None)
       => /\ IsNoRouteSentinel(last'.result)
          /\ last'.result.matchedLatitude = last'.args[1].latitude
          /\ last'.result.matchedLongitude = last'.args[1].longitude]_vars

\* The first fix arrived on a loaded map without a destination.
C6_Witness ==
    /\ last.op = "updateLocation"
    /\ calls.updateLocation = 1
    /\ calls.setDestination = 0
    /\ roadGraph.segments # <<>>
    /\ IsNoRouteSentinel(last.result)
    /\ last.result.matchedLatitude # last.result.matchedLongitude

\* Whether the routes of a recorded calculateRoutes call are the direct
\* route from its start to its end and nothing else.
DirectOnly(r) ==
    r.routes = <<CreateDirectRoute(r.start, r.end, GenerateRouteId(r.ch.ids[1]),
                                   r.ch.jit)>>

\* Whether A* finds no path between the nodes that calculateRoutes snaps the
\* start and the end of the recorded call r to on the graph g.
NoPathBetweenSnappedNodes(g, r) ==
    LET s == FindNearestNode(g, r.start, NODE_SEARCH_RADIUS, r.ch.ord)
        e == FindNearestNode(s.graph, r.end, NODE_SEARCH_RADIUS, r.ch.ord)
    IN  /\ s.node # Nullptr
        /\ e.node # Nullptr
        /\ FindPath(e.graph, s.node, e.node) = {<<>>}

\* C7: calculateRoutes returns exactly one route, the direct route, whenever
\* the start and the end are more than 10 km apart or A* finds no path
\* between the snapped nodes; in the first case no nearest-node search runs,
\* so the road graph is unchanged.
C7_DirectRouteFallback ==
    [][HasValue(last'.routing)
       => LET r == last'.routing[1]
              far == Dist(r.start, r.end) > MAX_ROUTE_DISTANCE
          IN  /\ far => DirectOnly(r) /\ roadGraph' = roadGraph
              /\ (~far /\ NoPathBetweenSnappedNodes(roadGraph, r))
                    => DirectOnly(r)]_vars

\* A routing call between places more than 10 km apart on a loaded map.
C7_Witness ==
    /\ HasValue(last.routing)
    /\ roadGraph.segments # <<>>
    /\ Dist(last.routing[1].start, last.routing[1].end) > MAX_ROUTE_DISTANCE
    /\ DirectOnly(last.routing[1])

\* A routing call on a loaded map over less than 10 km that ended in the
\* direct route: the search found no path.
C7_WitnessNoPath ==
    /\ HasValue(last.routing)
    /\ roadGraph.segments # <<>>
    /\ Dist(last.routing[1].start, last.routing[1].end) <= MAX_ROUTE_DISTANCE
    /\ DirectOnly(last.routing[1])

\* The distance from a place to the nearest point of a segment.
DistanceToSegment(g, loc, segment) ==
    Dist(loc, ProjectLocationOntoSegment(g, loc, segment))

\* Whether the graph has no segment within radius metres of the place.
NoSegmentWithin(g, loc, radius) ==
    \A i \in DOMAIN g.segments :
        DistanceToSegment(g, loc, g.segments[i]) > radius

\* C8: when the graph has no segment within the 10 km search radius of the
\* start or of the end, the snap fails and calculateRoutes returns the
\* direct route only.
C8_SnapFailsBeyondRadius ==
    [][HasValue(last'.routing)
       => LET r == last'.routing[1]
          IN  (\/ NoSegmentWithin(roadGraph, r.start, NODE_SEARCH_RADIUS)
               \/ NoSegmentWithin(roadGraph, r.end, NODE_SEARCH_RADIUS))
              => DirectOnly(r)]_vars

\* C9: every route calculateRoutes returns has at least two points, begins
\* at the latitude and longitude of the caller's start and ends at those of
\* the caller's end, simplified or not; and it returns at least one route.
C9_RouteEndpoints ==
    HasValue(last.routing)
    => LET r == last.routing[1]
       IN  /\ r.routes # <<>>
           /\ \A i \in DOMAIN r.routes :
                  LET points == r.routes[i].points
                  IN  /\ Len(points) >= 2
                      /\ points[1].latitude = r.start.latitude
                      /\ points[1].longitude = r.start.longitude
                      /\ points[Len(points)].latitude = r.end.latitude
                      /\ points[Len(points)].longitude = r.end.longitude

\* A routing call returned a route over roads, simplified from more points,
\* between places that are not nodes of the map.
C9_Witness ==
    /\ HasValue(last.routing)
    /\ last.routing[1].routes[1].name = Str("Route to Destination")
    /\ Len(last.routing[1].routes[1].points) > 2
    /\ \A n \in DOMAIN roadGraph.nodeObjs :
           /\ <<roadGraph.nodeObjs[n].latitude, roadGraph.nodeObjs[n].longitude>>
                  # <<last.routing[1].start.latitude,
                       last.routing[1].start.longitude>>
           /\ <<roadGraph.nodeObjs[n].latitude, roadGraph.nodeObjs[n].longitude>>
                  # <<last.routing[1].end.latitude, last.routing[1].end.longitude>>

(***************************************************************************)
(* The path search on its own: SpecAStar loads one of a family of small    *)
(* maps and then calls findPath and findPathWithCostFunction between its   *)
(* nodes.  The nodes of CrossMap: 1-2-4 and 1-3-4 are two ways round a     *)
(* rectangle, of equal length; 5 lies just beyond 4; 6 is a long way off   *)
(* and joined to 1 and 4 by motorways; 7 lies where 4 lies, so the way     *)
(* between them has the length 0.                                          *)
(***************************************************************************)
CrossNodes ==
    << [id |-> 1, lat |-> 0, lon |-> 0],
       [id |-> 2, lat |-> 1000, lon |-> 0],
       [id |-> 3, lat |-> 0, lon |-> 1000],
       [id |-> 4, lat |-> 1000, lon |-> 1000],
       [id |-> 5, lat |-> 1300, lon |-> 1000],
       [id |-> 6, lat |-> 0 - 749, lon |-> 2451],
       [id |-> 7, lat |-> 1000, lon |-> 1000] >>

CrossWays ==
    << [id |-> 1, nodeRefs |-> <<1, 2>>, tags |-> [highway |-> "residential"]],
       [id |-> 2, nodeRefs |-> <<2, 4>>,
        tags |-> [highway |-> "residential", oneway |-> "yes"]],
       [id |-> 3, nodeRefs |-> <<1, 3>>,
        tags |-> [highway |-> "residential", oneway |-> "yes"]],
       [id |-> 4, nodeRefs |-> <<3, 4>>, tags |-> [highway |-> "residential"]],
       [id |-> 5, nodeRefs |-> <<1, 5>>,
        tags |-> [highway |-> "residential", oneway |-> "yes"]],
       [id |-> 6, nodeRefs |-> <<5, 4>>, tags |-> [highway |-> "residential"]],
       [id |-> 7, nodeRefs |-> <<1, 6>>, tags |-> [highway |-> "motorway"]],
       [id |-> 8, nodeRefs |-> <<6, 4>>, tags |-> [highway |-> "motorway"]],
       [id |-> 9, nodeRefs |-> <<4, 7>>, tags |-> [highway |-> "residential"]] >>

\* The ways of CrossWays at the positions in S, in their order.
WaysAt(S) == [k \in 1 .. Cardinality(S) |-> CrossWays[SortedSeq(S)[k]]]

\* The maps of the family: all the nodes and any of the ways.
CrossMaps == {[nodes |-> CrossNodes, ways |-> WaysAt(S)] : S \in SUBSET DOMAIN CrossWays}

\* The nodes the searches start from and end at (a node's address is its
\* position in CrossNodes).
SearchStarts == {1, 2, 4}
SearchEnds == {1, 4, 5, 7}

\* The cost functions handed to findPathWithCostFunction.
CostFunctions == {"speed", "noHighways"}

InitAStar ==
    /\ \E doc \in CrossMaps :
           \E r \in {LoadOSMData(EmptyGraph, <<>>, doc, "kept")} :
               /\ roadGraph = r.graph
               /\ osmNodeMap = r.osmNodeMap
    /\ locationFilter = NewLocationFilter
    /\ routeMatcher = NewRouteMatcher
    /\ currentLocation = None
    /\ destinationLocation = None
    /\ alternativeRoutes = <<>>
    /\ currentRoute = None
    /\ clock = 0
    /\ calls = [NoCalls EXCEPT !.loadOSM = 1]
    /\ last = Call("init", <<>>, TRUE, None)

\* RoutingEngine::findPath(start, end)
FindPathStep(start, end) ==
    /\ last' = Call("findPath", <<start, end, "length">>,
                    FindPath(roadGraph, start, end), None)
    /\ UNCHANGED <<roadGraph, osmNodeMap, locationFilter, routeMatcher,
                   currentLocation, destinationLocation, alternativeRoutes,
                   currentRoute, clock, calls>>

\* RoutingEngine::findPathWithCostFunction(start, end, costFunction)
FindPathWithCostFunctionStep(start, end, costFunction) ==
    /\ last' = Call("findPathWithCostFunction", <<start, end, costFunction>>,
                    FindPathWithCostFunction(roadGraph, start, end, costFunction),
                    None)
    /\ UNCHANGED <<roadGraph, osmNodeMap, locationFilter, routeMatcher,
                   currentLocation, destinationLocation, alternativeRoutes,
                   currentRoute, clock, calls>>

NextAStar ==
    \/ \E start \in SearchStarts, end \in SearchEnds : FindPathStep(start, end)
    \/ \E start \in SearchStarts, end \in SearchEnds, c \in CostFunctions :
           FindPathWithCostFunctionStep(start, end, c)

SpecAStar == InitAStar /\ [][NextAStar]_vars

\* The segments the graph owns that lead from node a to node b.
SegmentsBetween(g, a, b) ==
    {g.segments[i] : i \in {j \in DOMAIN g.segments :
                               /\ g.segObjs[g.segments[j]].start = a
                               /\ g.segObjs[g.segments[j]].end = b}}

\* The least of a non-empty finite set of numbers.
Least(S) == CHOOSE x \in S : \A y \in S : x <= y

\* What a segment costs under each cost function, in thousandths of a
\* metre: its length; its length * 50 / its speed limit; ten times its
\* length on a highway and its length elsewhere.
StatedCost(segment, costFunction) ==
    CASE costFunction = "length" -> 1000 * segment.length
      [] costFunction = "speed"
         -> RoundDiv(segment.length * 50000, segment.speedLimit)
      [] costFunction = "noHighways"
         -> IF segment.type = "HIGHWAY" THEN 10000 * segment.length
            ELSE 1000 * segment.length

\* One round of relaxation towards the goal: d[n] is the least cost found so
\* far of a path from n to the goal, DBL_MAX when none is known.
RelaxTowards(g, costFunction, d) ==
    [n \in DOMAIN d |->
        Least({d[n]} \cup
              {StatedCost(g.segObjs[g.segments[i]], costFunction)
                   + d[g.segObjs[g.segments[i]].end] :
               i \in {j \in DOMAIN g.segments :
                         /\ g.segObjs[g.segments[j]].start = n
                         /\ d[g.segObjs[g.segments[j]].end] # DBL_MAX}})]

\* The least cost of a path from each node to the goal, by as many rounds
\* of relaxation as there are nodes (Bellman-Ford).
RECURSIVE CheapestAfter(_, _, _, _)
CheapestAfter(g, costFunction, d, rounds) ==
    IF rounds = 0 \/ ~Evaluated(d) THEN d
    ELSE CheapestAfter(g, costFunction, Strict(RelaxTowards(g, costFunction, d)),
                       rounds - 1)

CheapestTo(g, goal, costFunction) ==
    CheapestAfter(g, costFunction,
                  [n \in DOMAIN g.nodeObjs |-> IF n = goal THEN 0 ELSE DBL_MAX],
                  Len(g.nodeObjs))

\* The cost of a node path: the sum over its hops of the cheapest segment
\* of the hop.
RECURSIVE PathCost(_, _, _, _)
PathCost(g, path, costFunction, i) ==
    IF i >= Len(path) THEN 0
    ELSE Least({StatedCost(g.segObjs[s], costFunction) :
                s \in SegmentsBetween(g, path[i], path[i + 1])})
         + PathCost(g, path, costFunction, i + 1)

\* Whether a node path leads from start to end along segments of the graph,
\* each taken from its start to its end.
IsDirectedPath(g, path, start, end) ==
    /\ path # <<>>
    /\ path[1] = start
    /\ path[Len(path)] = end
    /\ \A i \in 1 .. Len(path) - 1 :
           SegmentsBetween(g, path[i], path[i + 1]) # {}

\* C10: findPath, whose edge cost is the segment length, returns a path of
\* the least total length whenever the goal can be reached, whichever way
\* the priority queue breaks ties.
C10_ShortestPath ==
    last.op = "findPath"
    => LET best == CheapestTo(roadGraph, last.args[2], "length")[last.args[1]]
       IN  best # DBL_MAX
           => \A path \in last.result :
                  /\ IsDirectedPath(roadGraph, path, last.args[1], last.args[2])
                  /\ PathCost(roadGraph, path, "length", 1) = best

\* findPath returned one of two different shortest paths of three nodes: the
\* queue held a tie.
C10_Witness ==
    /\ last.op = "findPath"
    /\ Cardinality(last.result) = 2
    /\ \A path \in last.result : Len(path) = 3

\* C11: under each cost function used for the alternatives (fastest: length
\* * 50 / speed limit; no highways: length * 10 on highways, else length)
\* the straight-line heuristic never exceeds the least remaining cost to the
\* goal, and the path A* returns has the least total cost under that cost
\* function.
C11_AlternativeCostsOptimal ==
    last.op = "findPathWithCostFunction"
    => LET goal == last.args[2]
           cheapest == CheapestTo(roadGraph, goal, last.args[3])
       IN  /\ \A n \in DOMAIN cheapest :
                  cheapest[n] # DBL_MAX
                  => EstimateHeuristic(roadGraph, n, goal) <= cheapest[n]
           /\ cheapest[last.args[1]] # DBL_MAX
              => \A path \in last.result :
                     /\ IsDirectedPath(roadGraph, path, last.args[1], goal)
                     /\ PathCost(roadGraph, path, last.args[3], 1)
                            = cheapest[last.args[1]]

\* The part of C11 that is about the no-highways cost function.
C11_NoHighwaysOptimal ==
    (last.op = "findPathWithCostFunction" /\ last.args[3] = "noHighways")
    => C11_AlternativeCostsOptimal

\* The part of C11 that is about the returned path alone.
C11_ReturnedPathCheapest ==
    last.op = "findPathWithCostFunction"
    => LET cheapest == CheapestTo(roadGraph, last.args[2], last.args[3])
       IN  cheapest[last.args[1]] # DBL_MAX
           => \A path \in last.result :
                  PathCost(roadGraph, path, last.args[3], 1)
                      = cheapest[last.args[1]]

\* C12: every non-empty path A* returns starts at the source node, ends at
\* the goal node, and each consecutive pair of its nodes is joined by a
\* segment from the first to the second, so that no one-way segment is taken
\* against its direction.
C12_PathsFollowSegments ==
    last.op \in {"findPath", "findPathWithCostFunction"}
    => \A path \in last.result :
           path # <<>>
           => IsDirectedPath(roadGraph, path, last.args[1], last.args[2])

\* A search returned a path of three nodes over a map in which the reverse
\* of one of its hops is not a segment.
C12_Witness ==
    /\ last.op \in {"findPath", "findPathWithCostFunction"}
    /\ \E path \in last.result :
           /\ Len(path) = 3
           /\ \E i \in 1 .. 2 :
                  SegmentsBetween(roadGraph, path[i + 1], path[i]) = {}

(***************************************************************************)
(* The road graph on its own: SpecGraph calls the public operations of     *)
(* RoadGraph (loadOSMData, addNode, addSegment, findNearbyRoads) and the   *)
(* nearest-node search of the routing engine, which adds nodes and         *)
(* segments where it projects onto a road.                                 *)
(***************************************************************************)
\* A street of three nodes running east, and a way that leaves the map
\* (node 9 is not in it).
StreetMap ==
    [nodes |-> << [id |-> 1, lat |-> 1000, lon |-> 1720],
                  [id |-> 2, lat |-> 1000, lon |-> 1800],
                  [id |-> 3, lat |-> 1000, lon |-> 2600] >>,
     ways |-> << [id |-> 1, nodeRefs |-> <<1, 2, 3>>,
                  tags |-> [highway |-> "residential", name |-> "Main"]],
                 [id |-> 2, nodeRefs |-> <<3, 9>>,
                  tags |-> [highway |-> "residential"]] >>]

\* A smaller extract: a motorway, a one-way street that leaves the map at
\* node 3, a footway and a private road.
SlipMap ==
    [nodes |-> << [id |-> 1, lat |-> 1000, lon |-> 1720],
                  [id |-> 2, lat |-> 1200, lon |-> 1800] >>,
     ways |-> << [id |-> 5, nodeRefs |-> <<1, 2>>,
                  tags |-> [highway |-> "motorway", ref |-> "A1"]],
                 [id |-> 6, nodeRefs |-> <<2, 3>>,
                  tags |-> [highway |-> "residential", oneway |-> "yes"]],
                 [id |-> 7, nodeRefs |-> <<1, 2>>,
                  tags |-> [highway |-> "footway"]],
                 [id |-> 8, nodeRefs |-> <<2, 1>>,
                  tags |-> [highway |-> "service", access |-> "private"]] >>]

GraphDocuments == {StreetMap, SlipMap}

\* The ids and places addNode is called with: the id of an OSM node, an id
\* no other node has, and the id "projected_3_9009_19819".
NodeIds == {<<"osm", 1>>, <<"extra">>, ProjectedNodeId(3, 1000, 2200)}
NodePlaces == {[latitude |-> 1000, longitude |-> 1720],
               [latitude |-> 1200, longitude |-> 1900]}

\* The places and radii the index is queried with.
QueryPlaces == {[latitude |-> 1000, longitude |-> 1100],
                [latitude |-> 1040, longitude |-> 2200]}
QueryRadii == {500}

\* How often the operations of the graph are called.
MaxGraphLoads == 2
MaxAddNodes == 1
MaxAddSegments == 1
MaxQueries == 1

\* RoadGraph::loadOSMData on a file that decodes to doc.
GraphLoad(doc, freed) ==
    /\ calls.loadOSM < MaxGraphLoads
    /\ \E r \in {LoadOSMData(roadGraph, osmNodeMap, doc, freed)} :
           /\ roadGraph' = r.graph
           /\ osmNodeMap' = r.osmNodeMap
           /\ last' = Call("loadOSMData", <<doc>>, r.success, None)
    /\ calls' = [calls EXCEPT !.loadOSM = @ + 1]
    /\ UNCHANGED <<locationFilter, routeMatcher, currentLocation,
                   destinationLocation, alternativeRoutes, currentRoute, clock>>

\* RoadGraph::addNode(id, lat, lon)
GraphAddNode(id, lat, lon) ==
    /\ calls.addNode < MaxAddNodes
    /\ \E r \in {AddNode(roadGraph, id, lat, lon)} :
           /\ roadGraph' = r.graph
           /\ last' = Call("addNode", <<id, lat, lon>>, r.node, None)
    /\ calls' = [calls EXCEPT !.addNode = @ + 1]
    /\ UNCHANGED <<osmNodeMap, locationFilter, routeMatcher, currentLocation,
                   destinationLocation, alternativeRoutes, currentRoute, clock>>

\* RoadGraph::addSegment between two nodes got from getNode.
GraphAddSegment(startId, endId) ==
    /\ calls.addSegment < MaxAddSegments
    /\ startId \in DOMAIN roadGraph.nodes
    /\ endId \in DOMAIN roadGraph.nodes
    /\ \E r \in {AddSegment(roadGraph, roadGraph.nodes[startId],
                            roadGraph.nodes[endId], Str("Link"), 50,
                            "SECONDARY")} :
           /\ roadGraph' = r.graph
           /\ last' = Call("addSegment", <<startId, endId>>, r.segment, None)
    /\ calls' = [calls EXCEPT !.addSegment = @ + 1]
    /\ UNCHANGED <<osmNodeMap, locationFilter, routeMatcher, currentLocation,
                   destinationLocation, alternativeRoutes, currentRoute, clock>>

\* RoadGraph::findNearbyRoads(loc, radius)
GraphFindNearbyRoads(loc, radius, ord) ==
    /\ calls.query < MaxQueries
    /\ last' = Call("findNearbyRoads", <<loc, radius>>,
                    FindNearbyRoads(roadGraph, loc, radius, ord), None)
    /\ calls' = [calls EXCEPT !.query = @ + 1]
    /\ UNCHANGED <<roadGraph, osmNodeMap, locationFilter, routeMatcher,
                   currentLocation, destinationLocation, alternativeRoutes,
                   currentRoute, clock>>

\* RoutingEngine::findNearestNode(location, NODE_SEARCH_RADIUS)
GraphFindNearestNode(loc, ord) ==
    /\ calls.query < MaxQueries
    /\ \E r \in {FindNearestNode(roadGraph, loc, NODE_SEARCH_RADIUS, ord)} :
           /\ roadGraph' = r.graph
           /\ last' = Call("findNearestNode", <<loc>>, r.node, None)
    /\ calls' = [calls EXCEPT !.query = @ + 1]
    /\ UNCHANGED <<osmNodeMap, locationFilter, routeMatcher, currentLocation,
                   destinationLocation, alternativeRoutes, currentRoute, clock>>

NextGraph ==
    \/ \E doc \in GraphDocuments, freed \in FreedMemory : GraphLoad(doc, freed)
    \/ \E id \in NodeIds, p \in NodePlaces :
           GraphAddNode(id, p.latitude, p.longitude)
    \/ \E a \in NodeIds, b \in NodeIds : GraphAddSegment(a, b)
    \/ \E q \in QueryPlaces, radius \in QueryRadii, ord \in IterationOrders :
           GraphFindNearbyRoads(Location(q.latitude, q.longitude, 0, 0, 0),
                                radius, ord)
    \/ \E q \in QueryPlaces, ord \in IterationOrders :
           GraphFindNearestNode(Location(q.latitude, q.longitude, 0, 0, 0), ord)

SpecGraph == Init /\ [][NextGraph]_vars

\* The nodes and the segments a graph owns, and the segments its spatial
\* index holds.
OwnedNodes(g) == {g.nodes[id] : id \in DOMAIN g.nodes}

OwnedSegments(g) == Range(g.segments)

IndexedSegments(g) ==
    Range(g.allSegments) \cup UNION {Range(g.cells[key]) : key \in DOMAIN g.cells}

\* C13: addNode called with an id that is already present returns the
\* existing node and does not replace it: the node registered under the id,
\* its outgoing segments and every segment that starts or ends at it stay
\* valid and unchanged.
C13_AddNodeKeepsExisting ==
    [][(last'.op = "addNode" /\ last'.args[1] \in DOMAIN roadGraph.nodes)
       => LET existing == roadGraph.nodes[last'.args[1]]
          IN  /\ last'.result = existing
              /\ roadGraph'.nodes[last'.args[1]] = existing
              /\ roadGraph'.nodeObjs[existing] = roadGraph.nodeObjs[existing]
              /\ roadGraph'.segments = roadGraph.segments
              /\ \A s \in OwnedSegments(roadGraph) :
                     /\ roadGraph'.segObjs[s] = roadGraph.segObjs[s]
                     /\ roadGraph'.nodeObjs[roadGraph.segObjs[s].start].live
                     /\ roadGraph'.nodeObjs[roadGraph.segObjs[s].end].live]_vars

\* C14: after any sequence of loads, addNode, addSegment and nearest-node
\* searches, every segment the graph or its spatial index holds starts and
\* ends at nodes the graph owns, and every outgoing segment of an owned node
\* is a segment the graph owns.
C14_NoDanglingReferences ==
    /\ \A s \in OwnedSegments(roadGraph) \cup IndexedSegments(roadGraph) :
           /\ roadGraph.segObjs[s].live
           /\ roadGraph.segObjs[s].start \in OwnedNodes(roadGraph)
           /\ roadGraph.segObjs[s].end \in OwnedNodes(roadGraph)
    /\ \A n \in OwnedNodes(roadGraph) :
           /\ roadGraph.nodeObjs[n].live
           /\ Range(roadGraph.nodeObjs[n].segments) \subseteq OwnedSegments(roadGraph)

\* Whether parseOSMFile and processWay accept a way as a road: it has a
\* highway tag that is not one of the excluded kinds, is not private, and
\* has at least two node refs.
WayAccepted(w) ==
    /\ Len(w.nodeRefs) >= 2
    /\ "highway" \in DOMAIN w.tags
    /\ w.tags["highway"] \notin {"footway", "cycleway", "path", "steps",
                                 "pedestrian", "track", "bus_guideway",
                                 "escape", "raceway", "bridleway"}
    /\ ~("access" \in DOMAIN w.tags /\ w.tags["access"] \in {"private", "no"})

\* Whether a way is one-way: its oneway tag is yes, true or 1, or it is a
\* motorway or a motorway link.
WayIsOneway(w) ==
    \/ "oneway" \in DOMAIN w.tags /\ w.tags["oneway"] \in {"yes", "true", "1"}
    \/ w.tags["highway"] \in {"motorway", "motorway_link"}

\* What a segment of a way is expected to be.
ExpectedSegment(w, from, to) ==
    [from |-> from, to |-> to,
     name |-> IF "name" \in DOMAIN w.tags THEN Str(w.tags["name"])
              ELSE IF "ref" \in DOMAIN w.tags THEN Str2("Road ", w.tags["ref"])
              ELSE Str("Unnamed Road"),
     speedLimit |-> GetSpeedLimitFromTags(w.tags, GetRoadTypeFromTags(w.tags)),
     type |-> GetRoadTypeFromTags(w.tags),
     isOneway |-> WayIsOneway(w)]

\* The segments expected of the node refs of way w from pair i on: for each
\* pair of refs that are both in the node map a forward segment and, unless
\* the way is one-way, a reverse segment.
RECURSIVE ExpectedOfWay(_, _, _)
ExpectedOfWay(w, known, i) ==
    IF i >= Len(w.nodeRefs) THEN <<>>
    ELSE (IF w.nodeRefs[i] \in known /\ w.nodeRefs[i + 1] \in known
          THEN <<ExpectedSegment(w, w.nodeRefs[i], w.nodeRefs[i + 1])>>
               \o (IF WayIsOneway(w) THEN <<>>
                   ELSE <<ExpectedSegment(w, w.nodeRefs[i + 1], w.nodeRefs[i])>>)
          ELSE <<>>)
         \o ExpectedOfWay(w, known, i + 1)

\* The segments expected of the ways from position k on.
RECURSIVE ExpectedOfWays(_, _, _)
ExpectedOfWays(ways, known, k) ==
    IF k > Len(ways) THEN <<>>
    ELSE (IF WayAccepted(ways[k]) THEN ExpectedOfWay(ways[k], known, 1)
          ELSE <<>>)
         \o ExpectedOfWays(ways, known, k + 1)

\* The segments the graph owns, described as ExpectedSegment describes them.
SegmentsOf(g) ==
    [i \in DOMAIN g.segments |->
        LET s == g.segObjs[g.segments[i]]
        IN  [from |-> g.nodeObjs[s.start].id[2], to |-> g.nodeObjs[s.end].id[2],
             name |-> s.name, speedLimit |-> s.speedLimit, type |-> s.type,
             isOneway |-> s.isOneway]]

\* C15: loading a map adds, for every accepted way and each consecutive pair
\* of its node refs that are both in the node map, exactly two segments
\* (forward and reverse, with the same name, speed limit and class) when the
\* way is not one-way and exactly one forward segment when it is one-way
\* (oneway tag yes, true or 1, or a motorway or motorway link); a pair with
\* a missing node adds no segment.
C15_SegmentsOfWays ==
    last.op = "loadOSMData"
    => SegmentsOf(roadGraph)
           = ExpectedOfWays(last.args[1].ways, DOMAIN osmNodeMap, 1)

\* The street map was loaded: two two-way pairs and a pair with a missing
\* node.
C15_Witness ==
    /\ last.op = "loadOSMData"
    /\ last.args[1] = StreetMap
    /\ Len(roadGraph.segments) = 4
    /\ 9 \notin DOMAIN osmNodeMap

\* The slip map was loaded: a motorway without a oneway tag gave one
\* segment.
C15_WitnessOneway ==
    /\ last.op = "loadOSMData"
    /\ last.args[1] = SlipMap
    /\ calls.loadOSM = 1
    /\ Len(roadGraph.segments) = 1

\* C16: findNearbyRoads(q, radius) returns every segment of the index that
\* has an endpoint within radius metres of q, at any latitude and for
\* negative coordinates too.
C16_NearbyComplete ==
    last.op = "findNearbyRoads"
    => \A s \in Range(roadGraph.allSegments) :
           LET q == last.args[1]
               from == roadGraph.nodeObjs[roadGraph.segObjs[s].start]
               to == roadGraph.nodeObjs[roadGraph.segObjs[s].end]
           IN  (\/ HaversineDistance(q.latitude, q.longitude,
                                     from.latitude, from.longitude)
                       <= last.args[2]
                \/ HaversineDistance(q.latitude, q.longitude,
                                     to.latitude, to.longitude)
                       <= last.args[2])
               => s \in Range(last.result)

(***************************************************************************)
(* The location filter on its own: SpecFilter feeds one LocationFilter a   *)
(* sequence of raw fixes.                                                  *)
(***************************************************************************)
\* The raw fixes: a fix with every field set, a fix ten units north of it
\* without bearing and speed, a fix almost two degrees north, and two fixes
\* with a NaN coordinate.
FilterFixes ==
    {Location(1000, 1000, 90, 100, 50),
     Location(1010, 1000, NaN, NaN, 30),
     Location(200000, 1000, 90, 100, 50),
     Location(NaN, 1000, 90, 100, 50),
     Location(1000, NaN, 90, 100, 50)}

\* Milliseconds between two calls of process: a second, and a gap the
\* filter takes for a clock fault.
FilterElapsed == {1000, 20000}

\* How often process is called.
MaxProcessCalls == 3

\* LocationFilter::process(raw), elapsed milliseconds after the call before
\* it.
FilterProcess(raw, elapsed, nanSign) ==
    /\ calls.process < MaxProcessCalls
    /\ clock' = clock + elapsed
    /\ \E p \in {Process(locationFilter, raw, clock + elapsed, nanSign)} :
           /\ locationFilter' = p.filter
           /\ last' = Call("process", <<raw>>, p.out, None)
    /\ calls' = [calls EXCEPT !.process = @ + 1]
    /\ UNCHANGED <<roadGraph, osmNodeMap, routeMatcher, currentLocation,
                   destinationLocation, alternativeRoutes, currentRoute>>

NextFilter ==
    \E raw \in FilterFixes, elapsed \in FilterElapsed, nanSign \in NaNSigns :
        FilterProcess(raw, elapsed, nanSign)

SpecFilter == Init /\ [][NextFilter]_vars

\* Whether latitude, longitude and accuracy of a fix are finite.
FiniteFix(raw) ==
    ~IsNaN(raw.latitude) /\ ~IsNaN(raw.longitude) /\ ~IsNaN(raw.accuracy)

\* C17: every filtered fix the filter returns for a raw fix with finite
\* fields, the very first fix after construction included, has an accuracy
\* of 0.8 times the raw accuracy.
C17_AccuracyScaled ==
    (last.op = "process" /\ FiniteFix(last.args[1]))
    => 10 * last.result.accuracy = 8 * last.args[1].accuracy

\* C17 for the fixes after the first: their accuracy is 0.8 times the raw
\* accuracy.
C17_LaterFixesScaled ==
    (last.op = "process" /\ FiniteFix(last.args[1]) /\ calls.process > 1)
    => 10 * last.result.accuracy = 8 * last.args[1].accuracy

\* A finite fix was filtered after another fix.
C17_WitnessLater ==
    /\ last.op = "process"
    /\ FiniteFix(last.args[1])
    /\ calls.process > 1
    /\ last.result.accuracy = 24

\* C18: a fix with a non-finite latitude or longitude is returned unchanged
\* and leaves the filter as it was: position, velocity, variances, the
\* initialized flag and the last timestamp.
C18_MalformedFixIgnored ==
    [][(last'.op = "process" /\ calls'.process = calls.process + 1
        /\ (IsNaN(last'.args[1].latitude) \/ IsNaN(last'.args[1].longitude)))
       => /\ last'.result = last'.args[1]
          /\ locationFilter' = locationFilter]_vars

(***************************************************************************)
(* The route matcher on its own: SpecMatcher loads the town map into the   *)
(* graph the matcher points to and hands the matcher routes.               *)
(***************************************************************************)
\* A point of a route.
PointAt(lat, lon) == Location(lat, lon, 0, 0, 0)

\* The routes handed to setRoute: a route without points, a route of one
\* point, the residential road from west to east, the same road with its
\* first point repeated, and the one-way street.
MatcherRoutes ==
    {Route(Str("none"), Str("Empty"), <<>>, 0),
     Route(Str("one"), Str("Single"), <<PointAt(1000, 1000)>>, 0),
     Route(Str("road"), Str("Road"),
           <<PointAt(1000, 1000), PointAt(1000, 2000), PointAt(1000, 3000)>>,
           200),
     Route(Str("twice"), Str("Repeated"),
           <<PointAt(1000, 1000), PointAt(1000, 1000), PointAt(1000, 2000)>>,
           100),
     Route(Str("street"), Str("Street"),
           <<PointAt(400, 1000), PointAt(1000, 1000)>>, 60)}

\* How often the operations of the matcher's specification are called.
MaxMatcherLoads == 1
MaxSetRoutes == 3
MaxMatches == 2

\* RoadGraph::loadOSMData on the graph the matcher points to.
MatcherLoad(doc, freed) ==
    /\ calls.loadOSM < MaxMatcherLoads
    /\ \E r \in {LoadOSMData(roadGraph, osmNodeMap, doc, freed)} :
           /\ roadGraph' = r.graph
           /\ osmNodeMap' = r.osmNodeMap
           /\ last' = Call("loadOSMData", <<doc>>, r.success, None)
    /\ calls' = [calls EXCEPT !.loadOSM = @ + 1]
    /\ UNCHANGED <<locationFilter, routeMatcher, currentLocation,
                   destinationLocation, alternativeRoutes, currentRoute, clock>>

\* RouteMatcher::setRoute(route)
MatcherSetRoute(route, ord) ==
    /\ calls.setRoute < MaxSetRoutes
    /\ routeMatcher' = SetRoute(routeMatcher, roadGraph, route, ord)
    /\ last' = Call("setRoute", <<route, ord>>, TRUE, None)
    /\ calls' = [calls EXCEPT !.setRoute = @ + 1]
    /\ UNCHANGED <<roadGraph, osmNodeMap, locationFilter, currentLocation,
                   destinationLocation, alternativeRoutes, currentRoute, clock>>

\* RouteMatcher::match(location)
MatcherMatch(loc, ord) ==
    /\ calls.match < MaxMatches
    /\ \E matched \in {Match(routeMatcher, roadGraph, loc, ord)} :
           /\ routeMatcher' = matched.matcher
           /\ last' = Call("match", <<loc, ord>>, matched.out, None)
    /\ calls' = [calls EXCEPT !.match = @ + 1]
    /\ UNCHANGED <<roadGraph, osmNodeMap, locationFilter, currentLocation,
                   destinationLocation, alternativeRoutes, currentRoute, clock>>

NextMatcher ==
    \/ \E doc \in Documents, freed \in FreedMemory : MatcherLoad(doc, freed)
    \/ \E route \in MatcherRoutes, ord \in IterationOrders :
           MatcherSetRoute(route, ord)
    \/ \E loc \in Fixes, ord \in IterationOrders : MatcherMatch(loc, ord)

SpecMatcher == Init /\ [][NextMatcher]_vars

\* C19: after every setRoute(r) the cumulative distances are as many as the
\* points of r, begin with 0 when r has points, and never decrease, whatever
\* routes were set before.
C19_CumulativeDistances ==
    last.op = "setRoute"
    => LET cum == routeMatcher.cumulativeDistances
           points == last.args[1].points
       IN  /\ Len(cum) = Len(points)
           /\ points # <<>> => cum[1] = 0
           /\ \A i \in 1 .. Len(cum) - 1 : cum[i] <= cum[i + 1]

\* The third route set is the road with its first point repeated: three
\* cumulative distances, the first two equal.
C19_Witness ==
    /\ last.op = "setRoute"
    /\ calls.setRoute = MaxSetRoutes
    /\ Len(last.args[1].points) = 3
    /\ routeMatcher.cumulativeDistances[2] = 0
    /\ routeMatcher.cumulativeDistances[3] > 0

\* The second route set has no points, after a route with points: the
\* cumulative distances are empty again.
C19_WitnessShrunk ==
    /\ last.op = "setRoute"
    /\ calls.setRoute = 2
    /\ last.args[1].points = <<>>
    /\ routeMatcher.routeSegments # <<>>
    /\ routeMatcher.cumulativeDistances = <<>>

\* What setRoute(r) leaves when nothing of an earlier route remains.
ReplacedBy(m, g, route, ord) ==
    /\ m.currentRoute = Some(route)
    /\ m.cumulativeDistances
           = (IF route.points = <<>> THEN <<>> ELSE CumDistances(route.points))
    /\ m.routeSegments = PrecalculateRouteSegments(g, Some(route), ord)

\* C20: setRoute(r) replaces the whole state of the matcher: the active
\* route is r, and the cumulative distances and the route segments are
\* those of r alone, for every r, a route of no point or one point included.
C20_SetRouteReplacesState ==
    [][(last'.op = "setRoute" /\ calls'.setRoute = calls.setRoute + 1)
       => ReplacedBy(routeMatcher', roadGraph', last'.args[1],
                     last'.args[2])]_vars

\* C20 for the routes that have a point: setRoute replaces the whole state.
C20_RoutesWithPointsReplaceState ==
    [][(last'.op = "setRoute" /\ calls'.setRoute = calls.setRoute + 1
        /\ last'.args[1].points # <<>>)
       => ReplacedBy(routeMatcher', roadGraph', last'.args[1],
                     last'.args[2])]_vars

\* A route of one point was set after a route that had route segments, and
\* no route segment is left.
C20_WitnessSinglePoint ==
    /\ last.op = "setRoute"
    /\ calls.setRoute = MaxSetRoutes
    /\ Len(last.args[1].points) = 1
    /\ routeMatcher.routeSegments = <<>>
    /\ roadGraph.segments # <<>>

\* C21: match is idempotent.  A match changes nothing of the matcher but
\* lastLocation (the active route, the cumulative distances and the route
\* segments stay) and nothing of the road graph, and a match that follows a
\* match of the same fix returns the same observation.
C21_MatchIdempotent ==
    [][(last'.op = "match" /\ calls'.match = calls.match + 1)
       => /\ routeMatcher'
                 = [routeMatcher EXCEPT !.lastLocation = Some(last'.args[1])]
          /\ roadGraph' = roadGraph
          /\ (last.op = "match" /\ last.args = last'.args)
                 => last'.result = last.result]_vars

\* The second of two matches on the loaded town map with a route that has
\* route segments: it is matched to a road of the route.
C21_Witness ==
    /\ last.op = "match"
    /\ calls.match = 2
    /\ routeMatcher.routeSegments # <<>>
    /\ routeMatcher.lastLocation = Some(last.args[1])
    /\ last.result.streetName = Str("Unnamed Road")

\* No point after index closest and before the last point of the route
\* turns by more than 30 degrees.
NoTurnAfter(points, closest) ==
    \A i \in closest + 1 .. Len(points) - 2 : BearingChangeAt(points, i) <= 30

\* C22: when no point after the closest index turns by more than 30
\* degrees, the observation says "Arrive at destination" and its distance
\* is that from the closest point to the end of the route, whether or not
\* the closest point is the last.
C22_ArriveAtDestination ==
    (/\ last.op = "match"
     /\ HasValue(routeMatcher.currentRoute)
     /\ routeMatcher.currentRoute[1].points # <<>>)
    => LET points == routeMatcher.currentRoute[1].points
           cum == routeMatcher.cumulativeDistances
           closest == FindClosestPointOnRoute(routeMatcher, last.args[1])
       IN  NoTurnAfter(points, closest)
           => /\ last.result.nextManeuver = "Arrive at destination"
              /\ last.result.distanceToNext = cum[Len(cum)] - cum[closest + 1]

\* C22 when the closest point is the last point of the route: "Arrive at
\* destination", distance 0.
C22_ArriveAtLastPoint ==
    (/\ last.op = "match"
     /\ HasValue(routeMatcher.currentRoute)
     /\ routeMatcher.currentRoute[1].points # <<>>)
    => LET points == routeMatcher.currentRoute[1].points
           closest == FindClosestPointOnRoute(routeMatcher, last.args[1])
       IN  closest = Len(points) - 1
           => /\ last.result.nextManeuver = "Arrive at destination"
              /\ last.result.distanceToNext = 0

\* C22 for the distance alone.
C22_DistanceToEnd ==
    (/\ last.op = "match"
     /\ HasValue(routeMatcher.currentRoute)
     /\ routeMatcher.currentRoute[1].points # <<>>)
    => LET points == routeMatcher.currentRoute[1].points
           cum == routeMatcher.cumulativeDistances
           closest == FindClosestPointOnRoute(routeMatcher, last.args[1])
       IN  NoTurnAfter(points, closest)
           => last.result.distanceToNext = cum[Len(cum)] - cum[closest + 1]

\* s is a prefix of t.
IsPrefix(s, t) == Len(s) <= Len(t) /\ SubSeq(t, 1, Len(s)) = s

\* Graph h is graph g after k projections: k nodes and 2k segments more,
\* the j-th new node between the two halves of a segment of g that have
\* its name, speed limit and class and the next two ids, and every node and
\* segment of g as it was, but for the new segments that leave an old node.
AfterProjections(g, h, k) ==
    /\ Len(h.nodeObjs) = Len(g.nodeObjs) + k
    /\ Len(h.segObjs) = Len(g.segObjs) + 2 * k
    /\ Len(h.segments) = Len(g.segments) + 2 * k
    /\ IsPrefix(g.segments, h.segments)
    /\ IsPrefix(g.allSegments, h.allSegments)
    /\ h.nextSegmentId = g.nextSegmentId + 2 * k
    /\ Cardinality(DOMAIN h.nodes) = Cardinality(DOMAIN g.nodes) + k
    /\ \A id \in DOMAIN g.nodes :
           id \in DOMAIN h.nodes /\ h.nodes[id] = g.nodes[id]
    /\ \A n \in 1 .. Len(g.nodeObjs) :
           /\ h.nodeObjs[n]
                  = [g.nodeObjs[n] EXCEPT !.segments = h.nodeObjs[n].segments]
           /\ IsPrefix(g.nodeObjs[n].segments, h.nodeObjs[n].segments)
    /\ \A s \in 1 .. Len(g.segObjs) : h.segObjs[s] = g.segObjs[s]
    /\ \A j \in 1 .. k :
           LET proj == Len(g.nodeObjs) + j
               first == Len(g.segObjs) + 2 * j - 1
               second == Len(g.segObjs) + 2 * j
               into == h.segObjs[first]
               out == h.segObjs[second]
           IN  /\ h.nodes[h.nodeObjs[proj].id] = proj
               /\ h.nodeObjs[proj].segments = <<second>>
               /\ h.segments[Len(g.segments) + 2 * j - 1] = first
               /\ h.segments[Len(g.segments) + 2 * j] = second
               /\ into.end = proj /\ out.start = proj
               /\ into.id = g.nextSegmentId + 2 * j - 2
               /\ out.id = g.nextSegmentId + 2 * j - 1
               /\ \E s \in 1 .. Len(g.segObjs) :
                      /\ g.segObjs[s].start = into.start
                      /\ g.segObjs[s].end = out.end
                      /\ \A half \in {into, out} :
                             /\ half.name = g.segObjs[s].name
                             /\ half.speedLimit = g.segObjs[s].speedLimit
                             /\ half.type = g.segObjs[s].type

\* C24: a nearest-node search appends one node and two segments for each
\* projection it makes (start -> projection and projection -> end, with the
\* name, the speed limit and the class of the segment) and removes or
\* alters no node or segment that was there: the counts do not decrease and
\* the segment ids stay.
C24_ProjectionAppends ==
    [][(last'.op = "findNearestNode" /\ calls'.query = calls.query + 1)
       => AfterProjections(roadGraph, roadGraph',
                           Len(roadGraph'.nodeObjs) - Len(roadGraph.nodeObjs))]_vars

\* C24 for the searches whose projections get ids that no node of the graph
\* has.
C24_NewIdsAppend ==
    [][(/\ last'.op = "findNearestNode"
        /\ calls'.query = calls.query + 1
        /\ \A n \in Len(roadGraph.nodeObjs) + 1 .. Len(roadGraph'.nodeObjs) :
               roadGraph'.nodeObjs[n].id \notin DOMAIN roadGraph.nodes)
       => AfterProjections(roadGraph, roadGraph',
                           Len(roadGraph'.nodeObjs) - Len(roadGraph.nodeObjs))]_vars

\* A nearest-node search has returned a projection that took the id of a
\* node the graph had: that node is destroyed.
C24_WitnessReplaced ==
    /\ last.op = "findNearestNode"
    /\ last.result # Nullptr
    /\ roadGraph.nodeObjs[last.result].id[1] = "projected"
    /\ \E n \in 1 .. Len(roadGraph.nodeObjs) :
           /\ n # last.result
           /\ roadGraph.nodeObjs[n].id = roadGraph.nodeObjs[last.result].id
           /\ ~roadGraph.nodeObjs[n].live

\* A nearest-node search has returned a node it projected onto a road.
C24_Witness ==
    /\ last.op = "findNearestNode"
    /\ last.result # Nullptr
    /\ roadGraph.nodeObjs[last.result].id[1] = "projected"
    /\ roadGraph.nodeObjs[last.result].segments # <<>>
    /\ Len(roadGraph.segments) >= 4

\* The nodes that the nodes of S reach along the directed segments of g,
\* those of S included.
RECURSIVE ReachedFrom(_, _)
ReachedFrom(g, S) ==
    LET further == S \cup {g.segObjs[s].end :
                              s \in {t \in Range(g.segments) :
                                        g.segObjs[t].start \in S}}
    IN  IF further = S THEN S ELSE ReachedFrom(g, further)

\* C25: on every map of the family, with its cycles and its segments of
\* length 0, findPath ends with a path; the path is empty exactly when the
\* goal is not reached from the source along directed segments, and it is
\* the source alone when the source is the goal.
C25_FindPathCompletes ==
    last.op = "findPath"
    => LET start == last.args[1]
           end == last.args[2]
       IN  /\ last.result # {}
           /\ \A path \in last.result :
                  /\ path = <<>> <=> end \notin ReachedFrom(roadGraph, {start})
                  /\ start = end => path = <<start>>

\* A search from node 1 has reached node 7 through node 3 and over the
\* segment of length 0 from node 4, with the nodes 3 and 4 on a cycle.
C25_Witness ==
    /\ last.op = "findPath"
    /\ last.args[1] = 1 /\ last.args[2] = 7
    /\ <<1, 3, 4, 7>> \in last.result
    /\ 3 \in ReachedFrom(roadGraph, {4})

\* A search has ended without a path: the goal is not reached.
C25_WitnessNoPath ==
    /\ last.op = "findPath"
    /\ last.args[1] = 2 /\ last.args[2] = 5
    /\ last.result = {<<>>}
    /\ Cardinality(ReachedFrom(roadGraph, {2})) >= 3

\* A search from a node to itself has returned the node alone.
C25_WitnessSameNode ==
    /\ last.op = "findPath"
    /\ last.args[1] = 4 /\ last.args[2] = 4
    /\ last.result = {<<4>>}
    /\ roadGraph.nodeObjs[4].segments # <<>>

\* C26: every call of calculateRoutes returns at least one route, so
\* setDestination never returns false, and after an updateLocation with a
\* destination set the alternatives are not empty.
C26_AlwaysARoute ==
    /\ HasValue(last.routing) => last.routing[1].routes # <<>>
    /\ last.op = "setDestination" => last.result = TRUE
    /\ (last.op = "updateLocation" /\ HasValue(destinationLocation))
           => alternativeRoutes # <<>>

\* setDestination has returned true with the direct route alone, the map
\* being loaded: calculateRoutes fell back to it.
C26_Witness ==
    /\ last.op = "setDestination"
    /\ last.result = TRUE
    /\ HasValue(last.routing)
    /\ Len(alternativeRoutes) = 1
    /\ alternativeRoutes[1].name = Str("Direct Route")
    /\ roadGraph.segments # <<>>

\* C27: in every state of the engine its current route and the active
\* route of the matcher agree: both are absent, or both are present and the
\* same route, id and points included.
C27_RoutesAgree ==
    /\ currentRoute = routeMatcher.currentRoute
    /\ HasValue(currentRoute)
           => /\ routeMatcher.currentRoute[1].id = currentRoute[1].id
              /\ routeMatcher.currentRoute[1].points = currentRoute[1].points

\* switchToRoute has replaced the route that updateLocation adopted by
\* another of the alternatives.
C27_Witness ==
    /\ last.op = "switchToRoute"
    /\ last.result = TRUE
    /\ calls.updateLocation > 0
    /\ HasValue(currentRoute)
    /\ currentRoute[1] # alternativeRoutes[1]
    /\ routeMatcher.currentRoute = currentRoute

\* Node p of graph g lies on a two-way road between the nodes a and b: the
\* graph owns segments a -> b and b -> a, and segments a -> p and p -> b.
OnTwoWayRoad(g, p, a, b) ==
    /\ a # b /\ a # p /\ b # p
    /\ SegmentsBetween(g, a, b) # {}
    /\ SegmentsBetween(g, b, a) # {}
    /\ SegmentsBetween(g, a, p) # {}
    /\ SegmentsBetween(g, p, b) # {}

\* The node a nearest-node search has just projected onto a road, if any.
ProjectedNow ==
    IF /\ last.op = "findNearestNode"
       /\ last.result # Nullptr
       /\ roadGraph.nodeObjs[last.result].id[1] = "projected"
    THEN {last.result}
    ELSE {}

\* Node p reaches a and b and is reached from both along directed segments.
ReachesBothWays(g, p, a, b) ==
    /\ {a, b} \subseteq ReachedFrom(g, {p})
    /\ p \in ReachedFrom(g, {a})
    /\ p \in ReachedFrom(g, {b})

\* C29: a node projected onto a two-way road between A and B is connected
\* in both directions: it reaches A and B and is reached from A and from B
\* along directed segments, and a route may leave it towards A as well as
\* towards B and approach it from A as well as from B.
C29_BothDirections ==
    \A p \in ProjectedNow :
        \A a \in DOMAIN roadGraph.nodeObjs, b \in DOMAIN roadGraph.nodeObjs :
            OnTwoWayRoad(roadGraph, p, a, b)
            => /\ ReachesBothWays(roadGraph, p, a, b)
               /\ SegmentsBetween(roadGraph, p, a) # {}
               /\ SegmentsBetween(roadGraph, b, p) # {}

\* C29 for the reachability alone: the projected node reaches both ends of
\* the road and is reached from both.
C29_Reachable ==
    \A p \in ProjectedNow :
        \A a \in DOMAIN roadGraph.nodeObjs, b \in DOMAIN roadGraph.nodeObjs :
            OnTwoWayRoad(roadGraph, p, a, b)
            => ReachesBothWays(roadGraph, p, a, b)

\* A node was projected onto a two-way road between a and b: the only
\* segment that leaves it leads to b and the only one that reaches it comes
\* from a.
C29_WitnessOneDirection ==
    \E p \in ProjectedNow :
        \E a \in DOMAIN roadGraph.nodeObjs, b \in DOMAIN roadGraph.nodeObjs :
            /\ OnTwoWayRoad(roadGraph, p, a, b)
            /\ SegmentsBetween(roadGraph, p, a) = {}
            /\ SegmentsBetween(roadGraph, b, p) = {}
            /\ Len(roadGraph.nodeObjs[p].segments) = 1

(***************************************************************************)
(* The simplification on its own: SpecSmooth starts with a detailed route  *)
(* of three to five places of a street grid and applies smoothRoutePath to *)
(* it, which changes the route in place.                                   *)
(***************************************************************************)
\* Crossings 800 m apart (1000 units of longitude, 800 of latitude), and a
\* place 40 m east of the first.
GridPlaces ==
    {<<1000, 1000>>, <<1000, 2000>>, <<1000, 3000>>, <<1800, 2000>>,
     <<1800, 3000>>, <<2600, 3000>>, <<1000, 1050>>}

MinPolyline == 3
MaxPolyline == 5

\* The polylines: three to five places, no place twice.
Polylines ==
    {p \in UNION {[1 .. n -> GridPlaces] : n \in MinPolyline .. MaxPolyline} :
        \A i \in DOMAIN p, j \in DOMAIN p : i # j => p[i] # p[j]}

\* The detailed route along a polyline.
DetailedRoute(p) ==
    Route(Str("detailed"), Str("Route to Destination"),
          [i \in DOMAIN p |-> PointAt(p[i][1], p[i][2])], 0)

InitSmooth ==
    /\ roadGraph = EmptyGraph
    /\ osmNodeMap = <<>>
    /\ locationFilter = NewLocationFilter
    /\ routeMatcher = NewRouteMatcher
    /\ currentLocation = None
    /\ destinationLocation = None
    /\ alternativeRoutes \in {<<DetailedRoute(p)>> : p \in Polylines}
    /\ currentRoute = None
    /\ clock = 0
    /\ calls = NoCalls
    /\ last = Call("createDetailedRoute", <<>>, TRUE, None)

\* RoutingEngine::smoothRoutePath(route)
SmoothRoute ==
    /\ alternativeRoutes' =
           <<[alternativeRoutes[1] EXCEPT
                 !.points = SmoothRoutePath(alternativeRoutes[1].points)]>>
    /\ last' = Call("smoothRoutePath", <<alternativeRoutes[1].points>>,
                    alternativeRoutes'[1].points, None)
    /\ UNCHANGED <<roadGraph, osmNodeMap, locationFilter, routeMatcher,
                   currentLocation, destinationLocation, currentRoute, clock,
                   calls>>

NextSmooth == SmoothRoute

SpecSmooth == InitSmooth /\ [][NextSmooth]_vars

\* The places of a sequence of points.
PlacesOf(points) ==
    {<<points[i].latitude, points[i].longitude>> : i \in DOMAIN points}

\* The interior points (from 1) of a polyline at which it turns by more than
\* 20 degrees.
TurnsOf(points) ==
    {k \in 2 .. Len(points) - 1 : BearingChangeAt(points, k - 1) > 20}

\* C30: every interior point of the detailed polyline at which the route
\* turns by more than 20 degrees is a point of the route after
\* smoothRoutePath.
C30_TurnsKept ==
    last.op = "smoothRoutePath"
    => \A k \in TurnsOf(last.args[1]) :
           <<last.args[1][k].latitude, last.args[1][k].longitude>>
               \in PlacesOf(last.result)

\* C30 for the polylines of three points, on which the second pass does
\* not run.
C30_TurnsKeptOfThree ==
    (last.op = "smoothRoutePath" /\ Len(last.args[1]) = 3)
    => \A k \in TurnsOf(last.args[1]) :
           <<last.args[1][k].latitude, last.args[1][k].longitude>>
               \in PlacesOf(last.result)

\* The route 800 m east, 800 m east, 800 m north has been simplified: the
\* corner of 90 degrees between equal legs is gone.
C30_WitnessCornerDropped ==
    /\ last.op = "smoothRoutePath"
    /\ PlacesOf(last.args[1])
           = {<<1000, 1000>>, <<1000, 2000>>, <<1000, 3000>>, <<1800, 3000>>}
    /\ last.args[1][3].latitude = 1000 /\ last.args[1][3].longitude = 3000
    /\ last.args[1][4].latitude = 1800
    /\ 3 \in TurnsOf(last.args[1])
    /\ <<1000, 3000>> \notin PlacesOf(last.result)

(***************************************************************************)
(* The engine with a change of destination: SpecReroute calls the          *)
(* operations of the engine with fewer inputs than Spec and setDestination *)
(* up to twice.                                                            *)
(***************************************************************************)
MaxReroutes == 2

\* The fixes, the destinations and the draws of SpecReroute.
RerouteFixes == {Location(West.latitude, West.longitude, 90, 100, 50)}

RerouteDestinations == {East, South}

RerouteChoices == {ch \in Choices : ch.ord = "asc"}

NextReroute ==
    \/ \E doc \in Documents : LoadOSM(doc)
    \/ \E raw \in RerouteFixes, elapsed \in Elapsed, ch \in RerouteChoices :
           UpdateLocation(raw, elapsed, ch)
    \/ \E d \in RerouteDestinations, ch \in RerouteChoices :
           SetDestinationUpTo(MaxReroutes, d.latitude, d.longitude, ch)
    \/ GetAlternativeRoutes
    \/ \E n \in RouteIdNumbers, ord \in {"asc"} :
           SwitchToRoute(GenerateRouteId(n), ord)

SpecReroute == Init /\ [][NextReroute]_vars

\* The last point of a route is at the place of location d.
EndsAt(route, d) ==
    /\ route.points # <<>>
    /\ route.points[Len(route.points)].latitude = d.latitude
    /\ route.points[Len(route.points)].longitude = d.longitude

\* C28: in every state, a current route is one of the alternatives and
\* ends at the stored destination, and so does the route the matcher
\* follows: after setDestination with a new destination no route to the
\* old one is followed.
C28_RouteToDestination ==
    /\ HasValue(currentRoute)
           => /\ currentRoute[1] \in Range(alternativeRoutes)
              /\ EndsAt(currentRoute[1], destinationLocation[1])
    /\ HasValue(routeMatcher.currentRoute)
           => EndsAt(routeMatcher.currentRoute[1], destinationLocation[1])

\* C28 for the engine that has been given one destination only.
C28_FirstDestination ==
    calls.setDestination <= 1 => C28_RouteToDestination

\* setDestination was called with a new destination while a route was
\* active: the current route and the route of the matcher still end at the
\* old destination, and the alternatives lead to the new one.
C28_WitnessOldRoute ==
    /\ last.op = "setDestination"
    /\ calls.setDestination = 2
    /\ HasValue(currentRoute)
    /\ routeMatcher.currentRoute = currentRoute
    /\ ~EndsAt(currentRoute[1], destinationLocation[1])
    /\ \A i \in DOMAIN alternativeRoutes :
           EndsAt(alternativeRoutes[i], destinationLocation[1])

(***************************************************************************)
(* The maneuver label on its own: SpecManeuver starts with a matcher that  *)
(* was handed a route of three points through one corner, or no route, and *)
(* applies determineNextManeuver to every pair of indices.                 *)
(***************************************************************************)
\* The corner, and the offsets (latitude, longitude) from it of the points
\* before and after it.
Corner == <<2000, 2000>>

Around ==
    {<<1000, 0>>, <<-1000, 0>>, <<0, 1000>>, <<0, -1000>>,
     <<400, 1000>>, <<-400, 1000>>, <<400, -1000>>, <<-400, -1000>>,
     <<1000, 290>>, <<1000, -290>>, <<-1000, 500>>, <<0, 0>>}

\* The route from Corner + a through Corner to Corner + b.
CornerRoute(a, b) ==
    Route(Str("corner"), Str("Corner"),
          <<PointAt(Corner[1] + a[1], Corner[2] + a[2]),
            PointAt(Corner[1], Corner[2]),
            PointAt(Corner[1] + b[1], Corner[2] + b[2])>>, 100)

ManeuverRoutes == {CornerRoute(a, b) : a \in Around, b \in Around}

\* The indices determineNextManeuver is called with.
ManeuverIndices == -1 .. 3

\* RouteMatcher::RouteMatcher, then at most one setRoute.
InitManeuver ==
    /\ roadGraph = EmptyGraph
    /\ osmNodeMap = <<>>
    /\ locationFilter = NewLocationFilter
    /\ routeMatcher \in {NewRouteMatcher}
           \cup {SetRoute(NewRouteMatcher, EmptyGraph, route, "asc") :
                    route \in ManeuverRoutes}
    /\ currentLocation = None
    /\ destinationLocation = None
    /\ alternativeRoutes = <<>>
    /\ currentRoute = None
    /\ clock = 0
    /\ calls = NoCalls
    /\ last = Call("setRoute", <<>>, TRUE, None)

\* RouteMatcher::determineNextManeuver(currentIndex, maneuverIndex)
ManeuverDetermine(currentIndex, maneuverIndex) ==
    /\ last' = Call("determineNextManeuver", <<currentIndex, maneuverIndex>>,
                    DetermineNextManeuver(routeMatcher, currentIndex,
                                          maneuverIndex), None)
    /\ UNCHANGED <<roadGraph, osmNodeMap, locationFilter, routeMatcher,
                   currentLocation, destinationLocation, alternativeRoutes,
                   currentRoute, clock, calls>>

NextManeuver ==
    \E currentIndex \in ManeuverIndices, maneuverIndex \in ManeuverIndices :
        ManeuverDetermine(currentIndex, maneuverIndex)

SpecManeuver == InitManeuver /\ [][NextManeuver]_vars

\* The indices determineNextManeuver accepts: a route with points, and
\* 0 <= currentIndex < maneuverIndex < size.
ValidIndices(m, currentIndex, maneuverIndex) ==
    /\ HasValue(m.currentRoute)
    /\ m.currentRoute[1].points # <<>>
    /\ 0 <= currentIndex
    /\ currentIndex < maneuverIndex
    /\ maneuverIndex < Len(m.currentRoute[1].points)

\* The signed bearing change at point i (0-based, with a point before it and
\* one after it): the bearing of the leg that leaves it less the bearing of
\* the leg that reaches it, brought into (-180, 180].
SignedBearingChange(points, i) ==
    LET arriving == CalculateBearing(points[i].latitude, points[i].longitude,
                                     points[i + 1].latitude,
                                     points[i + 1].longitude)
        leaving == CalculateBearing(points[i + 1].latitude,
                                    points[i + 1].longitude,
                                    points[i + 2].latitude,
                                    points[i + 2].longitude)
        d == (leaving - arriving + 360) % 360
    IN  IF d > 180 THEN d - 360 ELSE d

\* The label stated for a signed bearing change a in (-180, 180].
StatedLabel(a) ==
    IF -20 < a /\ a < 20 THEN "Continue straight"
    ELSE IF 20 <= a /\ a < 60 THEN "Turn slight right"
    ELSE IF 60 <= a /\ a < 120 THEN "Turn right"
    ELSE IF 120 <= a THEN "Make a sharp right"
    ELSE IF -60 < a /\ a <= -20 THEN "Turn slight left"
    ELSE IF -120 < a /\ a <= -60 THEN "Turn left"
    ELSE "Make a sharp left"

\* C23: for valid indices the maneuver label is the stated function of the
\* signed bearing change at the maneuver index, normalized to (-180, 180],
\* and "Follow route" is returned for invalid indices only.
C23_ManeuverLabel ==
    last.op = "determineNextManeuver"
    => LET currentIndex == last.args[1]
           maneuverIndex == last.args[2]
           valid == ValidIndices(routeMatcher, currentIndex, maneuverIndex)
           points == routeMatcher.currentRoute[1].points
       IN  /\ (valid /\ maneuverIndex + 1 < Len(points))
                  => last.result
                         = StatedLabel(SignedBearingChange(points, maneuverIndex))
           /\ last.result = "Follow route" => ~valid

\* C23 for every bearing change but the reversal of 180 degrees.
C23_LabelShortOfReversal ==
    last.op = "determineNextManeuver"
    => LET currentIndex == last.args[1]
           maneuverIndex == last.args[2]
           valid == ValidIndices(routeMatcher, currentIndex, maneuverIndex)
           points == routeMatcher.currentRoute[1].points
       IN  /\ (/\ valid
               /\ maneuverIndex + 1 < Len(points)
               /\ SignedBearingChange(points, maneuverIndex) # 180)
                  => last.result
                         = StatedLabel(SignedBearingChange(points, maneuverIndex))
           /\ last.result = "Follow route" <=> ~valid

\* C23 for the route that goes east and then north: "Turn left" at the
\* corner.
C23_EastThenNorth ==
    (/\ last.op = "determineNextManeuver"
     /\ last.args = <<0, 1>>
     /\ routeMatcher.currentRoute
            = Some(CornerRoute(<<0, -1000>>, <<1000, 0>>)))
    => last.result = "Turn left"

\* A reversal from south to north has been labelled: the difference of the
\* bearings is -180, which the code leaves as it is.
C23_WitnessReversal ==
    /\ last.op = "determineNextManeuver"
    /\ last.args = <<0, 1>>
    /\ routeMatcher.currentRoute
           = Some(CornerRoute(<<1000, 0>>, <<1000, 0>>))
    /\ last.result = "Make a sharp left"

\* The corner of the route that goes east and then north has been labelled.
C23_WitnessEastThenNorth ==
    /\ last.op = "determineNextManeuver"
    /\ last.args = <<0, 1>>
    /\ routeMatcher.currentRoute
           = Some(CornerRoute(<<0, -1000>>, <<1000, 0>>))
    /\ last.result = "Turn left"

=============================================================================
